---- MODULE Spec2Model ----
(***************************************************************************)
(* System-Design-Visualizer: the chat builder (ChatBuilder), the           *)
(* application shell (AppContent) and the conversation/analysis service,   *)
(* as a state machine.  User gestures and the completions of the remote    *)
(* calls are the actions; the service functions are operators.             *)
(*                                                                         *)
(* Representation of strings.  A string value of the program is held in    *)
(* the state by its name in a table (TextChars gives its characters).      *)
(* String operations (trim, toLowerCase, includes) are computed on the     *)
(* characters and the result is looked up in the table again.  A character *)
(* outside ASCII is written "<U+hhhh>" and is one character.               *)
(***************************************************************************)
EXTENDS Integers, Sequences, FiniteSets, TLC

\* ------------------------------------------------------------------ bounds

\* longest message log a session may grow to (guards of HandleSend, HandleGenerate)
MaxMessages == 9

\* most remote calls a reset may leave in flight (guard of HandleReset)
MaxOrphans == 1

\* most object URLs alive at once (guard of HandleUpload)
MaxObjectUrls == 2

\* ------------------------------------------------------- JavaScript values

UNDEFINED == "undefined"

\* a call that threw / a promise that rejected
Thrown == [threw |-> TRUE, value |-> UNDEFINED]

\* a call that returned v / a promise that resolved with v
Returned(v) == [threw |-> FALSE, value |-> v]

MinOf(S) == CHOOSE x \in S : \A y \in S : x <= y

MaxOf(S) == CHOOSE x \in S : \A y \in S : x >= y

\* --------------------------------------------------------- fixed texts

\* getInitialMessage().content
GreetingChars ==
    << "H", "e", "y", "!", " ", "<U+1F44B>", " ", "I", "'", "m", " ", "h", "e", "r", "e", " ",
       "t", "o", " ", "h", "e", "l", "p", " ", "y", "o", "u", " ", "d", "e", "s", "i", "g",
       "n", " ", "a", " ", "s", "y", "s", "t", "e", "m", " ", "a", "r", "c", "h", "i", "t",
       "e", "c", "t", "u", "r", "e", " ", "f", "r", "o", "m", " ", "s", "c", "r", "a", "t",
       "c", "h", ".", "\n", "\n", "I", "'", "l", "l", " ", "a", "s", "k", " ", "y", "o", "u",
       " ", "a", " ", "f", "e", "w", " ", "q", "u", "e", "s", "t", "i", "o", "n", "s", " ",
       "a", "b", "o", "u", "t", " ", "w", "h", "a", "t", " ", "y", "o", "u", "'", "r", "e",
       " ", "b", "u", "i", "l", "d", "i", "n", "g", ",", " ", "a", "n", "d", " ", "t", "h",
       "e", "n", " ", "g", "e", "n", "e", "r", "a", "t", "e", " ", "a", " ", "c", "l", "e",
       "a", "n", " ", "m", "i", "c", "r", "o", "s", "e", "r", "v", "i", "c", "e", " ", "d",
       "i", "a", "g", "r", "a", "m", " ", "f", "o", "r", " ", "y", "o", "u", ".", "\n", "\n",
       "*", "*", "S", "o", ",", " ", "w", "h", "a", "t", " ", "a", "r", "e", " ", "y", "o",
       "u", " ", "b", "u", "i", "l", "d", "i", "n", "g", "?", "*", "*", " ", "T", "e", "l",
       "l", " ", "m", "e", " ", "a", "b", "o", "u", "t", " ", "y", "o", "u", "r", " ", "p",
       "r", "o", "j", "e", "c", "t", " ", "-", " ", "i", "s", " ", "i", "t", " ", "a", "n",
       " ", "e", "-", "c", "o", "m", "m", "e", "r", "c", "e", " ", "p", "l", "a", "t", "f",
       "o", "r", "m", ",", " ", "a", " ", "S", "a", "a", "S", " ", "a", "p", "p", ",", " ",
       "a", " ", "s", "o", "c", "i", "a", "l", " ", "n", "e", "t", "w", "o", "r", "k", ",",
       " ", "o", "r", " ", "s", "o", "m", "e", "t", "h", "i", "n", "g", " ", "e", "l", "s",
       "e", "?" >>

\* mockResponses[0].response
MockResponse0Chars ==
    << "G", "r", "e", "a", "t", " ", "c", "h", "o", "i", "c", "e", "!", " ", "T", "h", "a",
       "t", "'", "s", " ", "a", "n", " ", "e", "x", "c", "i", "t", "i", "n", "g", " ", "p",
       "r", "o", "j", "e", "c", "t", ".", " ", "*", "*", "W", "h", "a", "t", "'", "s", " ",
       "y", "o", "u", "r", " ", "e", "x", "p", "e", "c", "t", "e", "d", " ", "s", "c", "a",
       "l", "e", "?", "*", "*", " ", "A", "r", "e", " ", "w", "e", " ", "t", "a", "l", "k",
       "i", "n", "g", " ", "h", "u", "n", "d", "r", "e", "d", "s", ",", " ", "t", "h", "o",
       "u", "s", "a", "n", "d", "s", ",", " ", "o", "r", " ", "m", "i", "l", "l", "i", "o",
       "n", "s", " ", "o", "f", " ", "u", "s", "e", "r", "s", "?" >>

\* mockResponses[1].response
MockResponse1Chars ==
    << "G", "o", "t", " ", "i", "t", "!", " ", "T", "h", "a", "t", " ", "h", "e", "l", "p",
       "s", " ", "m", "e", " ", "u", "n", "d", "e", "r", "s", "t", "a", "n", "d", " ", "t",
       "h", "e", " ", "i", "n", "f", "r", "a", "s", "t", "r", "u", "c", "t", "u", "r", "e",
       " ", "n", "e", "e", "d", "s", ".", " ", "*", "*", "W", "h", "a", "t", " ", "a", "r",
       "e", " ", "t", "h", "e", " ", "c", "o", "r", "e", " ", "f", "e", "a", "t", "u", "r",
       "e", "s", "*", "*", " ", "y", "o", "u", " ", "n", "e", "e", "d", "?", " ", "F", "o",
       "r", " ", "e", "x", "a", "m", "p", "l", "e", ":", " ", "u", "s", "e", "r", " ", "a",
       "u", "t", "h", ",", " ", "p", "a", "y", "m", "e", "n", "t", "s", ",", " ", "r", "e",
       "a", "l", "-", "t", "i", "m", "e", " ", "n", "o", "t", "i", "f", "i", "c", "a", "t",
       "i", "o", "n", "s", ",", " ", "f", "i", "l", "e", " ", "u", "p", "l", "o", "a", "d",
       "s", ",", " ", "e", "t", "c", "." >>

\* mockResponses[2].response
MockResponse2Chars ==
    << "N", "i", "c", "e", " ", "f", "e", "a", "t", "u", "r", "e", " ", "s", "e", "t", "!",
       " ", "*", "*", "W", "h", "a", "t", " ", "k", "i", "n", "d", " ", "o", "f", " ", "d",
       "a", "t", "a", "*", "*", " ", "w", "i", "l", "l", " ", "y", "o", "u", " ", "b", "e",
       " ", "s", "t", "o", "r", "i", "n", "g", "?", " ", "T", "h", "i", "n", "k", " ", "a",
       "b", "o", "u", "t", " ", "u", "s", "e", "r", " ", "p", "r", "o", "f", "i", "l", "e",
       "s", ",", " ", "t", "r", "a", "n", "s", "a", "c", "t", "i", "o", "n", "s", ",", " ",
       "m", "e", "d", "i", "a", " ", "f", "i", "l", "e", "s", ",", " ", "e", "t", "c", "." >>

\* mockResponses[3].response
MockResponse3Chars ==
    << "M", "a", "k", "e", "s", " ", "s", "e", "n", "s", "e", ".", " ", "*", "*", "D", "o",
       " ", "y", "o", "u", " ", "n", "e", "e", "d", " ", "a", "n", "y", " ", "t", "h", "i",
       "r", "d", "-", "p", "a", "r", "t", "y", " ", "i", "n", "t", "e", "g", "r", "a", "t",
       "i", "o", "n", "s", "?", "*", "*", " ", "L", "i", "k", "e", " ", "p", "a", "y", "m",
       "e", "n", "t", " ", "g", "a", "t", "e", "w", "a", "y", "s", " ", "(", "S", "t", "r",
       "i", "p", "e", ")", ",", " ", "e", "m", "a", "i", "l", " ", "s", "e", "r", "v", "i",
       "c", "e", "s", ",", " ", "a", "n", "a", "l", "y", "t", "i", "c", "s", ",", " ", "o",
       "r", " ", "e", "x", "t", "e", "r", "n", "a", "l", " ", "A", "P", "I", "s", "?" >>

\* mockResponses[4].response
MockResponse4Chars ==
    << "P", "e", "r", "f", "e", "c", "t", "!", " ", "L", "a", "s", "t", " ", "q", "u", "e",
       "s", "t", "i", "o", "n", ":", " ", "*", "*", "A", "n", "y", " ", "t", "e", "c", "h",
       "n", "i", "c", "a", "l", " ", "p", "r", "e", "f", "e", "r", "e", "n", "c", "e", "s",
       " ", "o", "r", " ", "c", "o", "n", "s", "t", "r", "a", "i", "n", "t", "s", "?", "*",
       "*", " ", "L", "i", "k", "e", " ", "s", "p", "e", "c", "i", "f", "i", "c", " ", "d",
       "a", "t", "a", "b", "a", "s", "e", "s", ",", " ", "c", "l", "o", "u", "d", " ", "p",
       "r", "o", "v", "i", "d", "e", "r", "s", ",", " ", "o", "r", " ", "p", "r", "o", "g",
       "r", "a", "m", "m", "i", "n", "g", " ", "l", "a", "n", "g", "u", "a", "g", "e", "s",
       "?" >>

\* mockResponses[5].response
MockResponse5Chars ==
    << "A", "w", "e", "s", "o", "m", "e", "!", " ", "I", " ", "t", "h", "i", "n", "k", " ",
       "I", " ", "h", "a", "v", "e", " ", "a", " ", "g", "o", "o", "d", " ", "p", "i", "c",
       "t", "u", "r", "e", " ", "n", "o", "w", ".", " ", "<U+1F3A8>", "\n", "\n", "*", "*",
       "H", "e", "r", "e", "'", "s", " ", "w", "h", "a", "t", " ", "I", " ", "u", "n", "d",
       "e", "r", "s", "t", "o", "o", "d", ":", "*", "*", "\n", "-", " ", "Y", "o", "u", "'",
       "r", "e", " ", "b", "u", "i", "l", "d", "i", "n", "g", " ", "a", " ", "s", "c", "a",
       "l", "a", "b", "l", "e", " ", "a", "p", "p", "l", "i", "c", "a", "t", "i", "o", "n",
       "\n", "-", " ", "W", "i", "t", "h", " ", "a", "u", "t", "h", ",", " ", "d", "a", "t",
       "a", " ", "s", "t", "o", "r", "a", "g", "e", ",", " ", "a", "n", "d", " ", "i", "n",
       "t", "e", "g", "r", "a", "t", "i", "o", "n", "s", "\n", "-", " ", "N", "e", "e", "d",
       "s", " ", "t", "o", " ", "b", "e", " ", "r", "e", "l", "i", "a", "b", "l", "e", " ",
       "a", "n", "d", " ", "p", "e", "r", "f", "o", "r", "m", "a", "n", "t", "\n", "\n", "*",
       "*", "R", "e", "a", "d", "y", " ", "t", "o", " ", "g", "e", "n", "e", "r", "a", "t",
       "e", " ", "y", "o", "u", "r", " ", "s", "y", "s", "t", "e", "m", " ", "d", "e", "s",
       "i", "g", "n", "?", "*", "*", " ", "J", "u", "s", "t", " ", "c", "l", "i", "c", "k",
       " ", "t", "h", "e", " ", "b", "u", "t", "t", "o", "n", " ", "b", "e", "l", "o", "w",
       "!" >>

\* the apology handleSend appends when sendChatMessage rejects
SendFallbackChars ==
    << "S", "o", "r", "r", "y", ",", " ", "I", " ", "e", "n", "c", "o", "u", "n", "t", "e",
       "r", "e", "d", " ", "a", "n", " ", "e", "r", "r", "o", "r", ".", " ", "L", "e", "t",
       "'", "s", " ", "t", "r", "y", " ", "a", "g", "a", "i", "n", " ", "-", " ", "w", "h",
       "a", "t", " ", "w", "e", "r", "e", " ", "y", "o", "u", " ", "s", "a", "y", "i", "n",
       "g", "?" >>

\* the apology handleGenerate appends when generation fails
GenerateFallbackChars ==
    << "S", "o", "r", "r", "y", ",", " ", "I", " ", "h", "a", "d", " ", "t", "r", "o", "u",
       "b", "l", "e", " ", "g", "e", "n", "e", "r", "a", "t", "i", "n", "g", " ", "t", "h",
       "e", " ", "d", "e", "s", "i", "g", "n", ".", " ", "L", "e", "t", " ", "m", "e", " ",
       "t", "r", "y", " ", "a", "g", "a", "i", "n", ".", ".", "." >>

\* --------------------------------------------------------- String methods

UpperCaseLetters ==
    << "A", "B", "C", "D", "E", "F", "G", "H", "I", "J", "K", "L", "M",
       "N", "O", "P", "Q", "R", "S", "T", "U", "V", "W", "X", "Y", "Z" >>

LowerCaseLetters ==
    << "a", "b", "c", "d", "e", "f", "g", "h", "i", "j", "k", "l", "m",
       "n", "o", "p", "q", "r", "s", "t", "u", "v", "w", "x", "y", "z" >>

\* String.prototype.toLowerCase on one character
toLowerCaseChar(c) ==
    IF \E i \in 1..26 : UpperCaseLetters[i] = c
    THEN LowerCaseLetters[CHOOSE i \in 1..26 : UpperCaseLetters[i] = c]
    ELSE c

\* toLowerCase left out: the message is matched as it was written
toLowerCaseKept(s) == s

\* String.prototype.toLowerCase
toLowerCase(s) == [i \in 1..Len(s) |-> toLowerCaseChar(s[i])]

\* String.prototype.includes: keyword occurs in s as a substring
includes(s, keyword) ==
    \E i \in 0..(Len(s) - Len(keyword)) :
        \A j \in 1..Len(keyword) : s[i + j] = keyword[j]

WhiteSpace == {" ", "\t", "\n"}

\* trim, were it to return the string as it is
trimNothing(s) == s

\* String.prototype.trim
trim(s) ==
    LET kept == {i \in 1..Len(s) : s[i] \notin WhiteSpace}
    IN  IF kept = {} THEN << >> ELSE SubSeq(s, MinOf(kept), MaxOf(kept))

\* ------------------------------------------------------------ text table

\* what the user can have typed into the input field
InputTexts == {"", "blank", "hi_padded"}

\* what the remote model can answer in a chat turn
ReplyTexts == {"reply_plain", "reply_trigger"}

TextIds ==
    InputTexts \cup ReplyTexts \cup
    {"hi", "greeting", "mock0", "mock1", "mock2", "mock3", "mock4", "mock5",
     "send_fallback", "generate_fallback"}

\* the characters of a string of the table
TextChars(id) ==
    CASE id = "" -> << >>
      [] id = "blank" -> << " ", "\t", " " >>
      [] id = "hi_padded" -> << " ", "h", "i", " ", "\n" >>
      [] id = "hi" -> << "h", "i" >>
      [] id = "reply_plain" ->
            << "O", "K", ".", " ", "W", "h", "a", "t", " ", "s", "c", "a", "l", "e", "?" >>
      [] id = "reply_trigger" ->
            << "S", "h", "a", "l", "l", " ", "I", " ", "g", "e", "n", "e", "r", "a", "t",
               "e", " ", "i", "t", "?" >>
      [] id = "greeting" -> GreetingChars
      [] id = "mock0" -> MockResponse0Chars
      [] id = "mock1" -> MockResponse1Chars
      [] id = "mock2" -> MockResponse2Chars
      [] id = "mock3" -> MockResponse3Chars
      [] id = "mock4" -> MockResponse4Chars
      [] id = "mock5" -> MockResponse5Chars
      [] id = "send_fallback" -> SendFallbackChars
      [] id = "generate_fallback" -> GenerateFallbackChars

\* the string of the table with these characters
TextOf(chars) == CHOOSE id \in TextIds : TextChars(id) = chars

\* ------------------------------------------------------ Readiness policy

readyKeywords ==
    << << "g", "e", "n", "e", "r", "a", "t", "e" >>,
       << "c", "r", "e", "a", "t", "e", " ", "t", "h", "e", " ", "d", "e", "s", "i", "g", "n" >>,
       << "r", "e", "a", "d", "y", " ", "t", "o", " ", "b", "u", "i", "l", "d" >>,
       << "s", "h", "a", "l", "l", " ", "i", " ", "g", "e", "n", "e", "r", "a", "t", "e" >>,
       << "w", "a", "n", "t", " ", "m", "e", " ", "t", "o", " ", "g", "e", "n", "e", "r", "a",
          "t", "e" >>,
       << "c", "r", "e", "a", "t", "e", " ", "y", "o", "u", "r", " ", "a", "r", "c", "h", "i",
          "t", "e", "c", "t", "u", "r", "e" >> >>

\* checkIfReadyToGenerate with > in place of >=
checkIfReadyAfterEight(message, historyLength) ==
    LET lowerMessage == toLowerCase(message)
    IN  historyLength > 8
        \/ \E k \in 1..Len(readyKeywords) : includes(lowerMessage, readyKeywords[k])

\* checkIfReadyToGenerate with a threshold of 6 messages
checkIfReadyFromSix(message, historyLength) ==
    LET lowerMessage == toLowerCase(message)
    IN  historyLength >= 6
        \/ \E k \in 1..Len(readyKeywords) : includes(lowerMessage, readyKeywords[k])

\* checkIfReadyToGenerate(message, historyLength), message given by its characters
checkIfReadyToGenerate(message, historyLength) ==
    LET lowerMessage == toLowerCase(message)
    IN  historyLength >= 8
        \/ \E k \in 1..Len(readyKeywords) : includes(lowerMessage, readyKeywords[k])

\* ------------------------------------------------------- remote answers

(* What a provider can answer to one request.  kind is                     *)
(*   "transport"  fetch or response.json() rejects,                        *)
(*   "error"      the body carries an error payload (data.error),          *)
(*   "malformed"  the body has neither an error nor the expected fields,   *)
(*   "ok"         the body has the expected fields; content is the text.   *)
FailureKinds == {"transport", "error", "malformed"}

ChatResponses ==
    {[kind |-> k, content |-> ""] : k \in FailureKinds}
    \cup {[kind |-> "ok", content |-> r] : r \in ReplyTexts}

\* ------------------------------------------------------- backend choice

Backends == {"openai", "gemini", "mock"}

\* sendChatMessage: which implementation serves the call
sendChatMessageBackend(key, prov, env) ==
    IF key # ""
    THEN IF prov = "gemini" THEN "gemini" ELSE "openai"
    ELSE IF env # "" THEN "openai" ELSE "mock"

\* generateDesignFromChat: which implementation serves the call
generateDesignFromChatBackend(key, prov, env) ==
    IF key # ""
    THEN IF prov = "gemini" THEN "gemini" ELSE "openai"
    ELSE IF env # "" THEN "openai" ELSE "mock"

\* ------------------------------------------------------------ chat turns

\* sendMessageWithOpenAI: the messages of the request body
openAIMessages(conversationHistory, userMessage) ==
    << [role |-> "system", content |-> "SYSTEM_PROMPT"] >>
    \o [i \in 1..Len(conversationHistory) |->
           [role |-> conversationHistory[i].role,
            content |-> conversationHistory[i].content]]
    \o << [role |-> "user", content |-> userMessage] >>

\* sendMessageWithGemini: the contents of the request body (userMessage is not read)
geminiContents(conversationHistory, userMessage) ==
    << [role |-> "user", parts |-> << "SYSTEM INSTRUCTION: SYSTEM_PROMPT" >>] >>
    \o [i \in 1..Len(conversationHistory) |->
           [role |-> IF conversationHistory[i].role = "user" THEN "user" ELSE "model",
            parts |-> << conversationHistory[i].content >>]]

\* the turns sendChatMessage puts on the wire (the keyless mode sends none)
sendChatMessageTurns(backend, conversationHistory, userMessage) ==
    IF backend = "openai" THEN openAIMessages(conversationHistory, userMessage)
    ELSE IF backend = "gemini" THEN geminiContents(conversationHistory, userMessage)
    ELSE << >>

\* sendMessageWithOpenAI, from the answer of the completions endpoint on
sendMessageWithOpenAI(conversationHistory, userMessage, resp) ==
    IF resp.kind = "transport" THEN Thrown
    ELSE IF resp.kind = "error" THEN Thrown
    ELSE IF resp.kind = "malformed" THEN Thrown
    ELSE LET aiMessage == resp.content
             isReady == checkIfReadyToGenerate(TextChars(aiMessage),
                                               Len(conversationHistory))
         IN  Returned([message |-> aiMessage, isReadyToGenerate |-> isReady])

\* sendMessageWithGemini, from the answer of the generateContent endpoint on
sendMessageWithGemini(conversationHistory, userMessage, resp) ==
    IF resp.kind = "transport" THEN Thrown
    ELSE IF resp.kind = "error" THEN Thrown
    ELSE IF resp.kind = "malformed" THEN Thrown
    ELSE LET aiMessage == resp.content
             isReady == checkIfReadyToGenerate(TextChars(aiMessage),
                                               Len(conversationHistory))
         IN  Returned([message |-> aiMessage, isReadyToGenerate |-> isReady])

\* the scripted replies of the keyless mode (index 0 of the source is index 1)
mockResponses == << "mock0", "mock1", "mock2", "mock3", "mock4", "mock5" >>

\* getMockChatResponse reporting readiness one exchange early
getMockChatResponseEarly(conversationHistory, userMessage) ==
    LET exchangeCount == Len(conversationHistory) \div 2
        index == IF exchangeCount < Len(mockResponses) - 1
                 THEN exchangeCount ELSE Len(mockResponses) - 1
    IN  Returned([message |-> mockResponses[index + 1],
                  isReadyToGenerate |-> exchangeCount >= 4])

\* getMockChatResponse
getMockChatResponse(conversationHistory, userMessage) ==
    LET exchangeCount == Len(conversationHistory) \div 2
        index == IF exchangeCount < Len(mockResponses) - 1
                 THEN exchangeCount ELSE Len(mockResponses) - 1
    IN  Returned([message |-> mockResponses[index + 1],
                  isReadyToGenerate |-> exchangeCount >= 5])

\* sendChatMessage, for the backend chosen when the call was made
sendChatMessage(backend, conversationHistory, userMessage, resp) ==
    CASE backend = "gemini" -> sendMessageWithGemini(conversationHistory, userMessage, resp)
      [] backend = "openai" -> sendMessageWithOpenAI(conversationHistory, userMessage, resp)
      [] backend = "mock" -> getMockChatResponse(conversationHistory, userMessage)

\* ------------------------------------------------------------ JSON values

(* A JavaScript value held by the application or returned by JSON.parse    *)
(* is a record tagged with its type.  An object keeps its members in text  *)
(* order; each member is named by the token that wrote it (see MemberKey   *)
(* and MemberValue).                                                       *)
JsNull == [type |-> "null"]

JsUndefined == [type |-> "undefined"]

JsString(t) == [type |-> "string", text |-> t]

JsArray(items) == [type |-> "array", items |-> items]

JsObject(members) == [type |-> "object", members |-> members]

\* JavaScript truthiness of a value
Truthy(v) ==
    /\ v.type \notin {"null", "undefined"}
    /\ ~(v.type = "string" /\ v.text = "")

(* The text a model answers is a sequence of tokens: "{" and "}", a        *)
(* member token (one  "key": value  pair, separators included), "null",    *)
(* white space, a code-fence marker (written ~~~), or a word of prose.      *)
MemberTokens ==
    {"summary", "mermaidCode", "flowData", "flowData_noedges", "flowData_dangling",
     "nodes", "edges", "edges_dangling"}

\* the members of the built-in sample data (getMockDesign, getMockGraph)
MockMemberTokens ==
    {"summary_mockDesign", "mermaidCode_mockDesign", "flowData_mockDesign",
     "nodes_mockDesign", "edges_mockDesign", "nodes_mockGraph", "edges_mockGraph"}

\* getMockDesign's flowData: id and type of each node; id, source, target of each edge
mockDesignFlow ==
    [nodes |-> << [id |-> "client", type |-> "clientNode"],
                  [id |-> "cdn", type |-> "cacheNode"],
                  [id |-> "lb", type |-> "loadBalancerNode"],
                  [id |-> "gateway", type |-> "serverNode"],
                  [id |-> "auth", type |-> "serverNode"],
                  [id |-> "users", type |-> "serverNode"],
                  [id |-> "core", type |-> "serverNode"],
                  [id |-> "notifications", type |-> "serverNode"],
                  [id |-> "redis", type |-> "cacheNode"],
                  [id |-> "userdb", type |-> "databaseNode"],
                  [id |-> "maindb", type |-> "databaseNode"],
                  [id |-> "queue", type |-> "serverNode"],
                  [id |-> "emailworker", type |-> "serverNode"] >>,
     edges |-> << [id |-> "e1", source |-> "client", target |-> "cdn"],
                  [id |-> "e2", source |-> "cdn", target |-> "lb"],
                  [id |-> "e3", source |-> "lb", target |-> "gateway"],
                  [id |-> "e4", source |-> "gateway", target |-> "auth"],
                  [id |-> "e5", source |-> "gateway", target |-> "users"],
                  [id |-> "e6", source |-> "gateway", target |-> "core"],
                  [id |-> "e7", source |-> "gateway", target |-> "notifications"],
                  [id |-> "e8", source |-> "auth", target |-> "redis"],
                  [id |-> "e9", source |-> "users", target |-> "userdb"],
                  [id |-> "e10", source |-> "core", target |-> "maindb"],
                  [id |-> "e11", source |-> "core", target |-> "redis"],
                  [id |-> "e12", source |-> "notifications", target |-> "queue"],
                  [id |-> "e13", source |-> "queue", target |-> "emailworker"] >>]

\* getMockGraph's sample, were its second web server to reuse the first one's id
mockGraphFlowRepeatedId ==
    [nodes |-> << [id |-> "client", type |-> "clientNode"],
                  [id |-> "lb", type |-> "loadBalancerNode"],
                  [id |-> "web-server-1", type |-> "serverNode"],
                  [id |-> "web-server-1", type |-> "serverNode"],
                  [id |-> "db-primary", type |-> "databaseNode"],
                  [id |-> "cache", type |-> "cacheNode"] >>,
     edges |-> << [id |-> "e1", source |-> "client", target |-> "lb"],
                  [id |-> "e2", source |-> "lb", target |-> "web-server-1"],
                  [id |-> "e3", source |-> "lb", target |-> "web-server-1"],
                  [id |-> "e4", source |-> "web-server-1", target |-> "db-primary"],
                  [id |-> "e5", source |-> "web-server-1", target |-> "db-primary"],
                  [id |-> "e6", source |-> "web-server-1", target |-> "cache"] >>]

\* getMockGraph: id and type of each node; id, source, target of each edge
mockGraphFlow ==
    [nodes |-> << [id |-> "client", type |-> "clientNode"],
                  [id |-> "lb", type |-> "loadBalancerNode"],
                  [id |-> "web-server-1", type |-> "serverNode"],
                  [id |-> "web-server-2", type |-> "serverNode"],
                  [id |-> "db-primary", type |-> "databaseNode"],
                  [id |-> "cache", type |-> "cacheNode"] >>,
     edges |-> << [id |-> "e1", source |-> "client", target |-> "lb"],
                  [id |-> "e2", source |-> "lb", target |-> "web-server-1"],
                  [id |-> "e3", source |-> "lb", target |-> "web-server-2"],
                  [id |-> "e4", source |-> "web-server-1", target |-> "db-primary"],
                  [id |-> "e5", source |-> "web-server-2", target |-> "db-primary"],
                  [id |-> "e6", source |-> "web-server-1", target |-> "cache"] >>]

\* the key a member token writes
MemberKey(tok) ==
    CASE tok \in {"flowData", "flowData_noedges", "flowData_dangling",
                  "flowData_mockDesign"} -> "flowData"
      [] tok \in {"edges", "edges_dangling", "edges_mockDesign", "edges_mockGraph"} -> "edges"
      [] tok \in {"nodes", "nodes_mockDesign", "nodes_mockGraph"} -> "nodes"
      [] tok \in {"summary", "summary_mockDesign"} -> "summary"
      [] tok \in {"mermaidCode", "mermaidCode_mockDesign"} -> "mermaidCode"

\* the value a member token writes
MemberValue(tok) ==
    CASE tok = "summary" -> JsString("A summary")
      [] tok = "mermaidCode" -> JsString("graph TD; A-->B")
      [] tok = "nodes" -> JsArray(<< "A", "B" >>)
      [] tok = "edges" -> JsArray(<< << "A", "B" >> >>)
      [] tok = "edges_dangling" -> JsArray(<< << "A", "Z" >> >>)
      [] tok = "flowData" -> JsObject(<< "nodes", "edges" >>)
      [] tok = "flowData_noedges" -> JsObject(<< "nodes" >>)
      [] tok = "flowData_dangling" -> JsObject(<< "nodes", "edges_dangling" >>)
      [] tok = "summary_mockDesign" -> JsString("A scalable microservice architecture")
      [] tok = "mermaidCode_mockDesign" -> JsString("graph TD; Client-->CDN")
      [] tok = "flowData_mockDesign" ->
            JsObject(<< "nodes_mockDesign", "edges_mockDesign" >>)
      [] tok = "nodes_mockDesign" ->
            JsArray([i \in 1..Len(mockDesignFlow.nodes) |-> mockDesignFlow.nodes[i].id])
      [] tok = "edges_mockDesign" ->
            JsArray([i \in 1..Len(mockDesignFlow.edges) |->
                       << mockDesignFlow.edges[i].source, mockDesignFlow.edges[i].target >>])
      [] tok = "nodes_mockGraph" ->
            JsArray([i \in 1..Len(mockGraphFlow.nodes) |-> mockGraphFlow.nodes[i].id])
      [] tok = "edges_mockGraph" ->
            JsArray([i \in 1..Len(mockGraphFlow.edges) |->
                       << mockGraphFlow.edges[i].source, mockGraphFlow.edges[i].target >>])

\* obj[key] for a parsed value: the last member written under key, else undefined
Get(obj, key) ==
    IF obj.type # "object" THEN JsUndefined
    ELSE LET at == {i \in 1..Len(obj.members) : MemberKey(obj.members[i]) = key}
         IN  IF at = {} THEN JsUndefined ELSE MemberValue(obj.members[MaxOf(at)])

JsonWhiteSpace == {" ", "\n"}

\* text without its leading and trailing white-space tokens
trimTokens(text) ==
    LET kept == {i \in 1..Len(text) : text[i] \notin JsonWhiteSpace}
    IN  IF kept = {} THEN << >> ELSE SubSeq(text, MinOf(kept), MaxOf(kept))

\* JSON.parse(text): the value, or a SyntaxError thrown
JSONparse(text) ==
    LET t == trimTokens(text)
    IN  IF t = << "null" >> THEN Returned(JsNull)
        ELSE IF /\ Len(t) >= 2
                /\ t[1] = "{"
                /\ t[Len(t)] = "}"
                /\ \A i \in 2..(Len(t) - 1) : t[i] \in MemberTokens
             THEN Returned(JsObject(SubSeq(t, 2, Len(t) - 1)))
             ELSE Thrown

\* text.match(/\{[\s\S]*\}/): the span from the first "{" to the last "}", or no match
matchBraces(text) ==
    LET opens == {i \in 1..Len(text) : text[i] = "{"}
    IN  IF opens = {} THEN Thrown
        ELSE LET closes == {j \in 1..Len(text) : j > MinOf(opens) /\ text[j] = "}"}
             IN  IF closes = {} THEN Thrown
                 ELSE Returned(SubSeq(text, MinOf(opens), MaxOf(closes)))

\* --------------------------------------------------------- generation

\* the texts a model can answer to a generation request
GenerationContents ==
    { << "{", "summary", "mermaidCode", "flowData", "}" >>,
      << "{", "summary", "mermaidCode", "flowData_dangling", "}" >>,
      << "{", "summary", "mermaidCode", "flowData_noedges", "}" >>,
      << "{", "summary", "mermaidCode", "}" >>,
      << "{", "summary", "}" >>,
      << "{", "}" >>,
      << "null" >>,
      << "~~~json", "\n", "{", "summary", "mermaidCode", "flowData", "}", "\n", "~~~" >>,
      << "prose", " ", "{", "summary", "mermaidCode", "flowData", "}", " ", "prose" >>,
      << "prose" >> }

GenerationResponses ==
    {[kind |-> k, content |-> << >>] : k \in FailureKinds}
    \cup {[kind |-> "ok", content |-> c] : c \in GenerationContents}

\* generateWithOpenAI, from the answer of the completions endpoint on
generateWithOpenAI(conversationHistory, resp) ==
    IF resp.kind = "transport" THEN Thrown
    ELSE IF resp.kind = "error" THEN Thrown
    ELSE IF resp.kind = "malformed" THEN Thrown
    ELSE JSONparse(resp.content)

\* generateWithGemini, from the answer of the generateContent endpoint on
generateWithGemini(conversationHistory, resp) ==
    IF resp.kind = "transport" THEN Thrown
    ELSE IF resp.kind = "error" THEN Thrown
    ELSE IF resp.kind = "malformed" THEN Thrown
    ELSE LET text == resp.content
             jsonMatch == matchBraces(text)
             jsonStr == IF ~jsonMatch.threw THEN jsonMatch.value ELSE text
         IN  JSONparse(jsonStr)

\* getMockDesign: the built-in design, with all three fields
getMockDesign ==
    Returned(JsObject(<< "summary_mockDesign", "mermaidCode_mockDesign",
                         "flowData_mockDesign" >>))

\* generateDesignFromChat, for the backend chosen when the call was made
generateDesignFromChat(backend, conversationHistory, resp) ==
    CASE backend = "gemini" -> generateWithGemini(conversationHistory, resp)
      [] backend = "openai" -> generateWithOpenAI(conversationHistory, resp)
      [] backend = "mock" -> getMockDesign

\* --------------------------------------------------------- image analysis

\* generateMermaidFromImage's choice, were the keyless case sent to OpenAI as well
generateMermaidFromImageBackendNoMock(key, prov, env) ==
    IF key # ""
    THEN IF prov = "gemini" THEN "gemini" ELSE "openai"
    ELSE "openai"

\* generateMermaidFromImage: which implementation serves the call
generateMermaidFromImageBackend(key, prov, env) ==
    IF key # ""
    THEN IF prov = "gemini" THEN "gemini" ELSE "openai"
    ELSE IF env # "" THEN "openai" ELSE "mock"

\* convertMermaidToFlow's choice, were it to skip the environment key
convertMermaidToFlowBackendNoEnv(key, prov, env) ==
    IF key # ""
    THEN IF prov = "gemini" THEN "gemini" ELSE "openai"
    ELSE "mock"

\* convertMermaidToFlow: which implementation serves the call
convertMermaidToFlowBackend(key, prov, env) ==
    IF key # ""
    THEN IF prov = "gemini" THEN "gemini" ELSE "openai"
    ELSE IF env # "" THEN "openai" ELSE "mock"

\* text starts with / ends with the tokens of fence
StartsWith(text, fence) ==
    Len(text) >= Len(fence) /\ SubSeq(text, 1, Len(fence)) = fence

EndsWith(text, fence) ==
    Len(text) >= Len(fence)
    /\ SubSeq(text, Len(text) - Len(fence) + 1, Len(text)) = fence

\* text.replace(/^fence/, '')
replaceAtStart(text, fence) ==
    IF StartsWith(text, fence) THEN SubSeq(text, Len(fence) + 1, Len(text)) ELSE text

\* text.replace(/fence$/, '')
replaceAtEnd(text, fence) ==
    IF EndsWith(text, fence) THEN SubSeq(text, 1, Len(text) - Len(fence)) ELSE text

\* the diagram a model describes, as one token
DiagramBody == "graph TD; A-->B"

\* the texts a model can answer to an image-analysis request
AnalysisContents ==
    { << DiagramBody >>,
      << "~~~", "mermaid", "\n", DiagramBody, "\n", "~~~" >>,
      << "~~~", "\n", DiagramBody, "\n", "~~~" >>,
      << "~~~", "mermaid", "\n", "~~~" >>,
      << >> }

AnalysisResponses ==
    {[kind |-> k, content |-> << >>] : k \in FailureKinds}
    \cup {[kind |-> "ok", content |-> c] : c \in AnalysisContents}

\* the string that a sequence of tokens spells
TokensText(tokens) ==
    CASE tokens = << >> -> ""
      [] Len(tokens) = 1 -> tokens[1]

\* the clean-up both image-analysis implementations apply to the answer
cleanMermaid(content) ==
    LET c1 == replaceAtStart(content, << "~~~", "mermaid", "\n" >>)
        c2 == replaceAtStart(c1, << "~~~", "\n" >>)
        c3 == replaceAtEnd(c2, << "~~~" >>)
    IN  trimTokens(c3)

\* generateMermaidWithOpenAI, from the answer of the completions endpoint on
generateMermaidWithOpenAI(file, resp) ==
    IF resp.kind = "transport" THEN Thrown
    ELSE IF resp.kind = "error" THEN Thrown
    ELSE IF resp.kind = "malformed" THEN Thrown
    ELSE Returned(JsString(TokensText(cleanMermaid(resp.content))))

\* generateMermaidWithGemini, from the answer of the generateContent endpoint on
generateMermaidWithGemini(file, resp) ==
    IF resp.kind = "transport" THEN Thrown
    ELSE IF resp.kind = "error" THEN Thrown
    ELSE IF resp.kind = "malformed" THEN Thrown
    ELSE Returned(JsString(TokensText(cleanMermaid(resp.content))))

\* getMockMermaid
getMockMermaid == JsString("graph TD; Client-->LB")

\* generateMermaidFromImage, for the backend chosen when the call was made
generateMermaidFromImage(backend, file, resp) ==
    CASE backend = "gemini" -> generateMermaidWithGemini(file, resp)
      [] backend = "openai" -> generateMermaidWithOpenAI(file, resp)
      [] backend = "mock" -> Returned(getMockMermaid)

\* ------------------------------------------------------- graph conversion

\* the texts a model can answer to a conversion request
ConversionContents ==
    { << "{", "nodes", "edges", "}" >>,
      << "{", "nodes", "edges_dangling", "}" >>,
      << "{", "nodes", "}" >>,
      << "~~~json", "\n", "{", "nodes", "edges", "}", "\n", "~~~" >>,
      << "null" >>,
      << "prose" >> }

ConversionResponses ==
    {[kind |-> k, content |-> << >>] : k \in FailureKinds}
    \cup {[kind |-> "ok", content |-> c] : c \in ConversionContents}

\* convertToFlowWithOpenAI, from the answer of the completions endpoint on
convertToFlowWithOpenAI(code, resp) ==
    IF resp.kind = "transport" THEN Thrown
    ELSE IF resp.kind = "error" THEN Thrown
    ELSE IF resp.kind = "malformed" THEN Thrown
    ELSE JSONparse(resp.content)

\* convertToFlowWithGemini, from the answer of the generateContent endpoint on
convertToFlowWithGemini(code, resp) ==
    IF resp.kind = "transport" THEN Thrown
    ELSE IF resp.kind = "error" THEN Thrown
    ELSE IF resp.kind = "malformed" THEN Thrown
    ELSE LET text == resp.content
             jsonStr == replaceAtEnd(
                            replaceAtStart(
                                replaceAtStart(text, << "~~~json", "\n" >>),
                                << "~~~", "\n" >>),
                            << "~~~" >>)
         IN  JSONparse(jsonStr)

\* getMockGraph
getMockGraph == JsObject(<< "nodes_mockGraph", "edges_mockGraph" >>)

\* convertMermaidToFlow, for the backend chosen when the call was made
convertMermaidToFlow(backend, code, resp) ==
    CASE backend = "gemini" -> convertToFlowWithGemini(code, resp)
      [] backend = "openai" -> convertToFlowWithOpenAI(code, resp)
      [] backend = "mock" -> Returned(getMockGraph)

\* ------------------------------------------------------------------ state

VARIABLES
    \* AppContent (useState)
    mode,               \* "null" (landing), "upload", "chat" or "chat-result"
    graphData,
    mermaidCode,
    uploadedImageUrl,
    isAnalyzing,
    isConverting,
    selectedNode,
    designSummary,
    \* SettingsProvider and the build environment
    provider,
    apiKey,
    envKey,             \* import.meta.env.VITE_OPENAI_API_KEY
    \* ChatBuilder (useState), meaningful while mode = "chat"
    messages,
    inputValue,
    isLoading,
    isGenerating,
    isReadyToGenerate,
    \* what happened in this chat session so far (observed, not read by the code)
    exchangesCompleted, \* handleSend calls that ran to their finally
    sendOutcome,        \* the last handleSend: "none", "resolved" or "rejected"
    \* remote calls in flight, with what their continuation captured
    sendCall,
    generateCall,
    orphanGenerateCalls, \* generation calls of ChatBuilders unmounted since
    analyzeCall,
    convertCall,
    \* the browser's object URLs: serials of the URLs created and not revoked
    objectUrls,
    \* the remote requests issued so far, less the user actions that started
    \* a remote call so far (observed, not read by the code)
    requestsBeyondActions,
    \* one application of checkIfReadyToGenerate (specification SpecReady)
    crMessage,
    crHistoryLength,
    crResult,
    \* one call of a service function (specification SpecService)
    svcCall,
    svcResult, \* << >> before the call settles, then the one outcome
    \* the browser's localStorage and SettingsModal (specification SpecSettings)
    localStorage,       \* the items app_provider and app_api_key
    isSettingsOpen,
    localProvider,
    localKey,
    saved,              \* TRUE while handleSave's timer is pending
    \* what happened to the settings so far (observed, not read by the code)
    loadedFrom,         \* localStorage as SettingsProvider found it when initialised
    justLoaded,         \* no handler has run since SettingsProvider was initialised
    lastSave            \* the settings of the last Save, if any

appVars ==
    << mode, graphData, mermaidCode, uploadedImageUrl, isAnalyzing, isConverting,
       selectedNode, designSummary >>

settingsVars == << provider, apiKey, envKey >>

sessionLog == << exchangesCompleted, sendOutcome >>

chatVars ==
    << messages, inputValue, isLoading, isGenerating, isReadyToGenerate, sessionLog >>

chatCallVars == << sendCall, generateCall, orphanGenerateCalls >>

uploadCallVars == << analyzeCall, convertCall >>

urlVars == << objectUrls >>

netVars == << requestsBeyondActions >>

crVars == << crMessage, crHistoryLength, crResult >>

svcVars == << svcCall, svcResult >>

modalVars ==
    << localStorage, isSettingsOpen, localProvider, localKey, saved, loadedFrom,
       justLoaded, lastSave >>

\* the variables of the specifications that take one part of the program alone
pureVars == << crVars, svcVars, modalVars >>

vars ==
    << appVars, settingsVars, chatVars, chatCallVars, uploadCallVars, urlVars, netVars,
       pureVars >>

\* no call in flight
NoCall == [backend |-> "none"]

\* an adapter that fetches again after a failed fetch
RemoteRequestsWithRetry(backend) == IF backend = "mock" THEN 0 ELSE 2

\* the requests one call of a service function issues: each adapter has one fetch
RemoteRequests(backend) == IF backend = "mock" THEN 0 ELSE 1

\* whether the user action served by backend starts a remote call (1) or not (0)
RemoteCallsStarted(backend) == IF backend = "mock" THEN 0 ELSE 1

\* a user action calls the service function that backend serves
CountRequest(backend) ==
    requestsBeyondActions' =
        requestsBeyondActions + RemoteRequests(backend) - RemoteCallsStarted(backend)

\* ------------------------------------------------------------ AppContent

showDashboard == Truthy(uploadedImageUrl) \/ Truthy(mermaidCode) \/ Truthy(graphData)

isInUploadFlow == mode = "upload" /\ showDashboard

isInChatResultFlow == mode = "chat-result" /\ (Truthy(mermaidCode) \/ Truthy(graphData))

(* URL.createObjectURL: a URL no live URL equals; a serial is used again   *)
(* once its URL was revoked.                                               *)
createObjectURL(urls) ==
    LET n == MinOf({k \in 1..(Cardinality(urls) + 1) : k \notin urls})
    IN  [type |-> "string", text |-> "blob:", serial |-> n]

\* the effect on uploadedImageUrl, were it to have no clean-up
RevokeNever(old, new, urls) == urls

(* The clean-up of the effect on uploadedImageUrl: when the value changes  *)
(* the previous one, if truthy, is revoked.                                *)
RevokeOnChange(old, new, urls) ==
    IF new # old /\ Truthy(old) THEN urls \ {old.serial} ELSE urls

\* the header's Start Over button is rendered, or ChatBuilder's Cancel button is
ResetAvailable == isInUploadFlow \/ isInChatResultFlow \/ mode = "chat"

\* ------------------------------------------------------------ ChatBuilder

getInitialMessage == [role |-> "assistant", content |-> "greeting"]

\* ChatBuilder mounted with useState's initial values, the greeting effect left out
ChatMountsWithoutGreeting ==
    /\ messages' = << >>
    /\ inputValue' = ""
    /\ isLoading' = FALSE
    /\ isGenerating' = FALSE
    /\ isReadyToGenerate' = FALSE
    /\ sendCall' = NoCall
    /\ generateCall' = NoCall
    /\ exchangesCompleted' = 0
    /\ sendOutcome' = "none"

(* ChatBuilder is mounted: useState's initial values and the greeting      *)
(* effect.                                                                 *)
ChatMounts ==
    /\ messages' = << getInitialMessage >>
    /\ inputValue' = ""
    /\ isLoading' = FALSE
    /\ isGenerating' = FALSE
    /\ isReadyToGenerate' = FALSE
    /\ sendCall' = NoCall
    /\ generateCall' = NoCall
    /\ exchangesCompleted' = 0
    /\ sendOutcome' = "none"

(* ChatBuilder is unmounted (mode leaves "chat"): its state is gone.  A    *)
(* pending chat call can only set state of the unmounted component, which  *)
(* React ignores, so the call is dropped here.  A pending generation call  *)
(* still holds onDesignGenerated, a handler of AppContent: it is kept in   *)
(* orphanGenerateCalls (only its backend matters from here on), added to   *)
(* the calls `kept`.                                                       *)
ChatUnmounts(kept) ==
    /\ messages' = << >>
    /\ inputValue' = ""
    /\ isLoading' = FALSE
    /\ isGenerating' = FALSE
    /\ isReadyToGenerate' = FALSE
    /\ sendCall' = NoCall
    /\ generateCall' = NoCall
    /\ exchangesCompleted' = 0
    /\ sendOutcome' = "none"
    /\ orphanGenerateCalls' =
           IF generateCall # NoCall THEN Append(kept, generateCall.backend) ELSE kept

\* the landing page's "Chat" card: setMode("chat")
SetModeChat ==
    /\ mode = "null"
    /\ mode' = "chat"
    /\ ChatMounts
    /\ UNCHANGED << graphData, mermaidCode, uploadedImageUrl, isAnalyzing, isConverting,
                    selectedNode, designSummary, settingsVars, orphanGenerateCalls,
                    uploadCallVars, urlVars, netVars, pureVars >>

\* the text input is rendered and not disabled
InputEnabled == mode = "chat" /\ ~(isLoading \/ isGenerating)

\* the input's onChange
OnInputChange ==
    /\ InputEnabled
    /\ \E v \in InputTexts : inputValue' = v
    /\ UNCHANGED << appVars, settingsVars, messages, isLoading, isGenerating,
                    isReadyToGenerate, sessionLog, chatCallVars, uploadCallVars,
                    urlVars, netVars, pureVars >>

\* the Send button is rendered and not disabled
SendButtonEnabled ==
    /\ mode = "chat"
    /\ ~(trim(TextChars(inputValue)) = << >> \/ isLoading \/ isGenerating)

\* handleSend can be called: by the Send button, or by Enter in the input
SendAvailable == InputEnabled \/ SendButtonEnabled

\* handleSend, up to its await
HandleSend ==
    /\ SendAvailable
    /\ IF trim(TextChars(inputValue)) = << >> \/ isLoading
       THEN UNCHANGED vars
       ELSE LET userMessage == TextOf(trim(TextChars(inputValue)))
                newMessages == Append(messages, [role |-> "user", content |-> userMessage])
            IN  /\ Len(newMessages) + 1 <= MaxMessages
                /\ inputValue' = ""
                /\ isLoading' = TRUE
                /\ messages' = newMessages
                /\ sendCall' = [backend |-> sendChatMessageBackend(apiKey, provider, envKey),
                                newMessages |-> newMessages,
                                userMessage |-> userMessage,
                                turns |-> sendChatMessageTurns(
                                              sendChatMessageBackend(apiKey, provider, envKey),
                                              newMessages, userMessage)]
                /\ sendOutcome' = "none"
                /\ CountRequest(sendChatMessageBackend(apiKey, provider, envKey))
                /\ UNCHANGED << appVars, settingsVars, isGenerating, isReadyToGenerate,
                                exchangesCompleted, generateCall,
                                orphanGenerateCalls, uploadCallVars, urlVars, pureVars >>

\* handleSend's try block after the await: the reply is appended, readiness is set
handleSendThen(newMessages, response) ==
    /\ messages' = Append(newMessages, [role |-> "assistant", content |-> response.message])
    /\ isReadyToGenerate' = response.isReadyToGenerate

\* handleSend's catch block, were it to clear the readiness flag as well
handleSendCatchClearsReady(newMessages) ==
    /\ messages' = Append(newMessages, [role |-> "assistant", content |-> "send_fallback"])
    /\ isReadyToGenerate' = FALSE

\* handleSend's catch block: the apology is appended
handleSendCatch(newMessages) ==
    /\ messages' = Append(newMessages, [role |-> "assistant", content |-> "send_fallback"])
    /\ UNCHANGED isReadyToGenerate

\* handleSend's finally block, were it to leave the flag as it is
handleSendFinallyKeepsLoading == UNCHANGED isLoading

\* handleSend's finally block: setIsLoading(false)
handleSendFinally == isLoading' = FALSE

\* handleSend, from its await on: the try's continuation or the catch, then the finally
SendCompletes ==
    /\ sendCall # NoCall
    /\ \E resp \in ChatResponses :
         LET response == sendChatMessage(sendCall.backend, sendCall.newMessages,
                                         sendCall.userMessage, resp)
         IN  IF ~response.threw
             THEN /\ handleSendThen(sendCall.newMessages, response.value)
                  /\ sendOutcome' = "resolved"
             ELSE /\ handleSendCatch(sendCall.newMessages)
                  /\ sendOutcome' = "rejected"
    /\ handleSendFinally
    /\ sendCall' = NoCall
    /\ exchangesCompleted' = exchangesCompleted + 1
    /\ UNCHANGED << appVars, settingsVars, inputValue, isGenerating, generateCall,
                    orphanGenerateCalls, uploadCallVars, urlVars, netVars, pureVars >>

\* the Generate button, were it rendered whatever isReadyToGenerate is
GenerateShownAlways == mode = "chat" /\ ~isGenerating

\* the Generate button is rendered and not disabled
GenerateAvailable == mode = "chat" /\ isReadyToGenerate /\ ~isGenerating

\* handleGenerate, up to its await
HandleGenerate ==
    /\ GenerateAvailable
    /\ Len(messages) + 1 <= MaxMessages
    /\ isGenerating' = TRUE
    /\ generateCall' = [backend |-> generateDesignFromChatBackend(apiKey, provider, envKey),
                        messages |-> messages]
    /\ CountRequest(generateDesignFromChatBackend(apiKey, provider, envKey))
    /\ UNCHANGED << appVars, settingsVars, messages, inputValue, isLoading,
                    isReadyToGenerate, sessionLog, sendCall, orphanGenerateCalls,
                    uploadCallVars, urlVars, pureVars >>

\* handleDesignGenerated throws on design.summary when design is null
DesignReadable(design) == design.type \notin {"null", "undefined"}

\* handleDesignGenerated(design)
handleDesignGenerated(design) ==
    /\ designSummary' = Get(design, "summary")
    /\ mermaidCode' = Get(design, "mermaidCode")
    /\ graphData' = Get(design, "flowData")
    /\ mode' = "chat-result"

\* handleGenerate's catch block: the apology is appended to the captured log
handleGenerateCatch(capturedMessages) ==
    messages' = Append(capturedMessages,
                       [role |-> "assistant", content |-> "generate_fallback"])

\* handleGenerate, from its await on, in a ChatBuilder that is still mounted
GenerateCompletes ==
    /\ generateCall # NoCall
    /\ \E resp \in GenerationResponses :
         LET design == generateDesignFromChat(generateCall.backend,
                                              generateCall.messages, resp)
         IN  IF ~design.threw /\ DesignReadable(design.value)
             THEN /\ handleDesignGenerated(design.value)
                  /\ ChatUnmounts(orphanGenerateCalls)
                  /\ UNCHANGED << uploadedImageUrl, isAnalyzing, isConverting,
                                  selectedNode >>
             ELSE /\ handleGenerateCatch(generateCall.messages)
                  /\ isGenerating' = FALSE
                  /\ generateCall' = NoCall
                  /\ UNCHANGED << appVars, inputValue, isLoading, isReadyToGenerate,
                                  exchangesCompleted, sendOutcome, sendCall,
                                  orphanGenerateCalls >>
    /\ UNCHANGED << settingsVars, uploadCallVars, urlVars, netVars, pureVars >>

\* s without its i-th element
RemoveAt(s, i) == SubSeq(s, 1, i - 1) \o SubSeq(s, i + 1, Len(s))

(* handleGenerate, from its await on, in a ChatBuilder unmounted since: a  *)
(* design still goes to handleDesignGenerated; the catch and the finally   *)
(* set state of the unmounted component only.                              *)
OrphanGenerateCompletes ==
    /\ \E i \in 1..Len(orphanGenerateCalls) :
       \E resp \in GenerationResponses :
         LET design == generateDesignFromChat(orphanGenerateCalls[i], << >>, resp)
             rest == RemoveAt(orphanGenerateCalls, i)
         IN  IF ~design.threw /\ DesignReadable(design.value)
             THEN /\ handleDesignGenerated(design.value)
                  /\ IF mode = "chat"
                     THEN ChatUnmounts(rest)
                     ELSE /\ orphanGenerateCalls' = rest
                          /\ UNCHANGED << chatVars, sendCall, generateCall >>
                  /\ UNCHANGED << uploadedImageUrl, isAnalyzing, isConverting,
                                  selectedNode >>
             ELSE /\ orphanGenerateCalls' = rest
                  /\ UNCHANGED << appVars, chatVars, sendCall, generateCall >>
    /\ UNCHANGED << settingsVars, uploadCallVars, urlVars, netVars, pureVars >>

\* a pending call of the upload pipeline, marked as started before a reset
Stale(call) == IF call = NoCall THEN NoCall ELSE [call EXCEPT !.stale = TRUE]

\* the remote calls that a reset now would leave in flight
CallsLeftInFlight ==
    Len(orphanGenerateCalls)
        + (IF generateCall # NoCall THEN 1 ELSE 0)
        + (IF analyzeCall # NoCall THEN 1 ELSE 0)
        + (IF convertCall # NoCall THEN 1 ELSE 0)

\* handleReset: the header's Start Over button, or ChatBuilder's Cancel
HandleReset ==
    /\ ResetAvailable
    /\ CallsLeftInFlight <= MaxOrphans
    /\ mode' = "null"
    /\ graphData' = JsNull
    /\ mermaidCode' = JsNull
    /\ uploadedImageUrl' = JsNull
    /\ selectedNode' = JsNull
    /\ designSummary' = JsNull
    /\ objectUrls' = RevokeOnChange(uploadedImageUrl, JsNull, objectUrls)
    /\ IF mode = "chat"
       THEN ChatUnmounts(orphanGenerateCalls)
       ELSE UNCHANGED << chatVars, chatCallVars >>
    /\ analyzeCall' = Stale(analyzeCall)
    /\ convertCall' = Stale(convertCall)
    /\ UNCHANGED << isAnalyzing, isConverting, settingsVars, netVars, pureVars >>

\* ------------------------------------------------------- upload pipeline

\* the landing page's "Upload" card: setMode("upload")
SetModeUpload ==
    /\ mode = "null"
    /\ mode' = "upload"
    /\ UNCHANGED << graphData, mermaidCode, uploadedImageUrl, isAnalyzing, isConverting,
                    selectedNode, designSummary, settingsVars, chatVars, chatCallVars,
                    uploadCallVars, urlVars, netVars, pureVars >>

\* UploadZone is rendered
UploadZoneRendered == mode = "upload" /\ ~showDashboard

\* UploadZone takes a file: not while the isAnalyzing it is passed is true
UploadZoneAccepts == ~isAnalyzing

\* handleUpload(file), up to its await
HandleUpload ==
    /\ UploadZoneRendered
    /\ UploadZoneAccepts
    /\ Cardinality(objectUrls) < MaxObjectUrls
    /\ LET objectUrl == createObjectURL(objectUrls)
       IN  /\ uploadedImageUrl' = objectUrl
           /\ objectUrls' = RevokeOnChange(uploadedImageUrl, objectUrl, objectUrls)
                                \cup {objectUrl.serial}
    /\ isAnalyzing' = TRUE
    /\ analyzeCall' = [backend |-> generateMermaidFromImageBackend(apiKey, provider, envKey),
                       stale |-> FALSE]
    /\ CountRequest(generateMermaidFromImageBackend(apiKey, provider, envKey))
    /\ UNCHANGED << mode, graphData, mermaidCode, isConverting, selectedNode,
                    designSummary, settingsVars, chatVars, chatCallVars, convertCall,
                    pureVars >>

\* handleUpload after the await, were it to go on to the conversion
handleUploadThenConverts(code) ==
    /\ mermaidCode' = code
    /\ isConverting' = TRUE
    /\ convertCall' =
           [backend |-> convertMermaidToFlowBackend(apiKey, provider, envKey),
            mermaidCode |-> code,
            stale |-> FALSE]
    /\ UNCHANGED netVars

\* handleUpload after the await: setMermaidCode(code) and nothing else
handleUploadThen(code) ==
    /\ mermaidCode' = code
    /\ UNCHANGED << isConverting, convertCall, netVars >>

\* handleUpload, from its await on
AnalyzeCompletes ==
    /\ analyzeCall # NoCall
    /\ \E resp \in AnalysisResponses :
         LET code == generateMermaidFromImage(analyzeCall.backend, "file", resp)
         IN  IF ~code.threw
             THEN handleUploadThen(code.value)
             ELSE UNCHANGED << mermaidCode, isConverting, convertCall, netVars >>
    /\ isAnalyzing' = FALSE
    /\ analyzeCall' = NoCall
    /\ UNCHANGED << mode, graphData, uploadedImageUrl, selectedNode,
                    designSummary, settingsVars, chatVars, chatCallVars,
                    urlVars, pureVars >>

\* the results dashboard is rendered
DashboardRendered == isInUploadFlow \/ isInChatResultFlow

\* a Convert to Interactive button is rendered and not disabled
ConvertAvailable ==
    /\ DashboardRendered
    /\ Truthy(mermaidCode)
    /\ ~Truthy(graphData)
    /\ ~isConverting

\* handleConvertToInteractive, up to its await
HandleConvertToInteractive ==
    /\ ConvertAvailable
    /\ IF ~Truthy(mermaidCode)
       THEN UNCHANGED vars
       ELSE /\ isConverting' = TRUE
            /\ convertCall' =
                   [backend |-> convertMermaidToFlowBackend(apiKey, provider, envKey),
                    mermaidCode |-> mermaidCode,
                    stale |-> FALSE]
            /\ CountRequest(convertMermaidToFlowBackend(apiKey, provider, envKey))
            /\ UNCHANGED << mode, graphData, mermaidCode, uploadedImageUrl, isAnalyzing,
                            selectedNode, designSummary, settingsVars, chatVars,
                            chatCallVars, analyzeCall, urlVars, pureVars >>

\* handleConvertToInteractive, from its await on
ConvertCompletes ==
    /\ convertCall # NoCall
    /\ \E resp \in ConversionResponses :
         LET data == convertMermaidToFlow(convertCall.backend, convertCall.mermaidCode, resp)
         IN  IF ~data.threw
             THEN graphData' = data.value
             ELSE UNCHANGED graphData
    /\ isConverting' = FALSE
    /\ convertCall' = NoCall
    /\ UNCHANGED << mode, mermaidCode, uploadedImageUrl, isAnalyzing, selectedNode,
                    designSummary, settingsVars, chatVars, chatCallVars, analyzeCall,
                    urlVars, netVars, pureVars >>

\* SystemDiagram's onNodeClick: setSelectedNode
SelectNode ==
    /\ DashboardRendered
    /\ Truthy(graphData)
    /\ Get(graphData, "nodes").type = "array"
    /\ \E i \in 1..Len(Get(graphData, "nodes").items) :
         selectedNode' = JsString(Get(graphData, "nodes").items[i])
    /\ UNCHANGED << mode, graphData, mermaidCode, uploadedImageUrl, isAnalyzing,
                    isConverting, designSummary, settingsVars, chatVars, chatCallVars,
                    uploadCallVars, urlVars, netVars, pureVars >>

\* InfoPanel's onClose: setSelectedNode(null)
CloseInfoPanel ==
    /\ DashboardRendered
    /\ Truthy(graphData)
    /\ Truthy(selectedNode)
    /\ selectedNode' = JsNull
    /\ UNCHANGED << mode, graphData, mermaidCode, uploadedImageUrl, isAnalyzing,
                    isConverting, designSummary, settingsVars, chatVars, chatCallVars,
                    uploadCallVars, urlVars, netVars, pureVars >>

\* ------------------------------------------------------ the application

\* the provider, the saved key and the environment key a run starts with
InitialSettings ==
    { << "openai", "sk-user", "sk-env" >>,
      << "gemini", "", "sk-env" >>,
      << "openai", "", "" >> }

\* AppContent and what it renders, after the first render
SessionInit ==
    /\ mode = "null"
    /\ graphData = JsNull
    /\ mermaidCode = JsNull
    /\ uploadedImageUrl = JsNull
    /\ isAnalyzing = FALSE
    /\ isConverting = FALSE
    /\ selectedNode = JsNull
    /\ designSummary = JsNull
    /\ messages = << >>
    /\ inputValue = ""
    /\ isLoading = FALSE
    /\ isGenerating = FALSE
    /\ isReadyToGenerate = FALSE
    /\ exchangesCompleted = 0
    /\ sendOutcome = "none"
    /\ sendCall = NoCall
    /\ generateCall = NoCall
    /\ orphanGenerateCalls = << >>
    /\ analyzeCall = NoCall
    /\ convertCall = NoCall
    /\ objectUrls = {}
    /\ requestsBeyondActions = 0

\* the application after its first render; the settings come from localStorage
AppInit ==
    /\ SessionInit
    /\ \E st \in InitialSettings :
         /\ provider = st[1]
         /\ apiKey = st[2]
         /\ envKey = st[3]

\* no Save has happened
NoSave == [provider |-> "none", apiKey |-> "none"]

(* SettingsProvider's effects have written the settings to localStorage;   *)
(* SettingsModal is mounted, closed, its fields holding the settings.      *)
ModalInit ==
    /\ localStorage = [app_provider |-> JsString(provider), app_api_key |-> JsString(apiKey)]
    /\ isSettingsOpen = FALSE
    /\ localProvider = provider
    /\ localKey = apiKey
    /\ saved = FALSE
    /\ loadedFrom = localStorage
    /\ justLoaded = TRUE
    /\ lastSave = NoSave

\* no function is being applied
NoServiceCall == [fn |-> "none"]

Init ==
    /\ AppInit
    /\ ModalInit
    /\ crMessage = << >>
    /\ crHistoryLength = 0
    /\ crResult = "none"
    /\ svcCall = NoServiceCall
    /\ svcResult = << >>

Next ==
    \/ SetModeChat
    \/ OnInputChange
    \/ HandleSend
    \/ SendCompletes
    \/ HandleGenerate
    \/ GenerateCompletes
    \/ OrphanGenerateCompletes
    \/ HandleReset
    \/ SetModeUpload
    \/ HandleUpload
    \/ AnalyzeCompletes
    \/ HandleConvertToInteractive
    \/ ConvertCompletes
    \/ SelectNode
    \/ CloseInfoPanel

Spec == Init /\ [][Next]_vars

(* Every remote call in flight eventually returns or fails: the step that  *)
(* settles it is taken if it stays enabled.                                *)
CallsSettle ==
    /\ WF_vars(SendCompletes)
    /\ WF_vars(GenerateCompletes)
    /\ WF_vars(OrphanGenerateCompletes)
    /\ WF_vars(AnalyzeCompletes)
    /\ WF_vars(ConvertCompletes)

SpecLive == Spec /\ CallsSettle


\* ------------------------------------------- the readiness policy, alone

\* the longest history length the policy is applied to
MaxHistoryLength == 10

UpperCaseOf(c) ==
    IF \E i \in 1..26 : LowerCaseLetters[i] = c
    THEN UpperCaseLetters[CHOOSE i \in 1..26 : LowerCaseLetters[i] = c]
    ELSE c

CaseStyles == {"lower", "UPPER", "MiXeD"}

\* the phrase k written in a letter case
Cased(k, style) ==
    CASE style = "lower" -> k
      [] style = "UPPER" -> [i \in 1..Len(k) |-> UpperCaseOf(k[i])]
      [] style = "MiXeD" -> [i \in 1..Len(k) |-> IF i % 2 = 1 THEN UpperCaseOf(k[i]) ELSE k[i]]

Prefixes == { << >>, << "O", "K", ".", " " >> }

Suffixes == { << >>, << "?" >> }

\* messages that hold trigger phrase number n, in any letter case
PhraseMessages(n) ==
    { pre \o Cased(readyKeywords[n], style) \o post :
          pre \in Prefixes, style \in CaseStyles, post \in Suffixes }

\* messages that hold no trigger phrase
PlainMessages ==
    { << >>,
      TextChars("reply_plain"),
      << "g", "e", "n", "e", "r", "a", "t" >>,
      << "r", "e", "a", "d", "y", " ", " ", "t", "o", " ", "b", "u", "i", "l", "d" >>,
      << "s", "h", "a", "l", "l", " ", "i" >> }

PolicyMessages == PlainMessages \cup UNION { PhraseMessages(n) : n \in 1..Len(readyKeywords) }

InitReady ==
    /\ AppInit
    /\ ModalInit
    /\ crMessage \in PolicyMessages
    /\ crHistoryLength \in 0..MaxHistoryLength
    /\ crResult = "none"
    /\ svcCall = NoServiceCall
    /\ svcResult = << >>

\* checkIfReadyToGenerate is applied to the message and the history length
ApplyCheckIfReady ==
    /\ crResult = "none"
    /\ crResult' = IF checkIfReadyToGenerate(crMessage, crHistoryLength)
                    THEN "true"
                    ELSE "false"
    /\ UNCHANGED << appVars, settingsVars, chatVars, chatCallVars, uploadCallVars,
                    urlVars, netVars, crMessage, crHistoryLength, svcVars, modalVars >>

NextReady == ApplyCheckIfReady

SpecReady == InitReady /\ [][NextReady]_vars


\* ---------------------------------------- the service functions, alone

\* the status line of an answer, which fetch resolves with whatever it is
HttpStatuses == {"200", "503"}

\* a JSON object as a model writes it
JsonObjectTexts ==
    { << "{", "summary", "mermaidCode", "flowData", "}" >>,
      << "{", "summary", "}" >>,
      << "{", "}" >> }

\* what a model writes before and after the JSON object
TextsBefore ==
    { << >>,
      << "prose", " " >>,
      << "~~~json", "\n" >>,
      << "prose", "\n", "~~~json", "\n" >> }

TextsAfter ==
    { << >>,
      << " ", "prose" >>,
      << "\n", "~~~" >>,
      << "\n", "~~~", "\n", "prose" >>,
      << " ", "prose", "}" >> }

\* calls of generateDesignFromChat answered with a JSON object in other text
GenerationCalls ==
    { [fn |-> "generateDesignFromChat", backend |-> b, pre |-> pre, object |-> obj,
       post |-> post] :
          b \in {"openai", "gemini"}, pre \in TextsBefore, obj \in JsonObjectTexts,
          post \in TextsAfter }

\* logs handed to sendChatMessage: after the first user turn, and a long one
HistorySamples ==
    LET u == [role |-> "user", content |-> "hi"]
        a == [role |-> "assistant", content |-> "reply_plain"]
    IN  { << getInitialMessage, u >>,
          << getInitialMessage, u, a, u, a, u, a, u >> }

\* calls of sendChatMessage with a key, and every answer of the provider
ChatCalls ==
    { [fn |-> "sendChatMessage", backend |-> b, conversationHistory |-> h,
       userMessage |-> "hi", status |-> st, resp |-> r] :
          b \in {"openai", "gemini"}, h \in HistorySamples, st \in HttpStatuses,
          r \in ChatResponses }

InitService ==
    /\ AppInit
    /\ ModalInit
    /\ crMessage = << >>
    /\ crHistoryLength = 0
    /\ crResult = "none"
    /\ svcCall \in GenerationCalls \cup ChatCalls
    /\ svcResult = << >>

\* generateDesignFromChat is called and settles
ApplyGenerateDesignFromChat ==
    /\ svcResult = << >>
    /\ svcCall.fn = "generateDesignFromChat"
    /\ svcResult' =
           << generateDesignFromChat(
                  svcCall.backend, << >>,
                  [kind |-> "ok",
                   content |-> svcCall.pre \o svcCall.object \o svcCall.post]) >>
    /\ UNCHANGED << appVars, settingsVars, chatVars, chatCallVars, uploadCallVars,
                    urlVars, netVars, crVars, svcCall, modalVars >>

\* sendChatMessage is called and settles; the adapters never read the status
ApplySendChatMessage ==
    /\ svcResult = << >>
    /\ svcCall.fn = "sendChatMessage"
    /\ svcResult' =
           << sendChatMessage(svcCall.backend, svcCall.conversationHistory,
                              svcCall.userMessage, svcCall.resp) >>
    /\ UNCHANGED << appVars, settingsVars, chatVars, chatCallVars, uploadCallVars,
                    urlVars, netVars, crVars, svcCall, modalVars >>

NextService ==
    \/ ApplyGenerateDesignFromChat
    \/ ApplySendChatMessage

SpecService == InitService /\ [][NextService]_vars


\* ------------------- the service functions as the application calls them

\* the user turns of a session that the calls below cover
MaxTurns == 7

\* the log handleSend hands to sendChatMessage at the k-th user turn of a session
TurnHistory(k) ==
    [i \in 1..(2 * k) |->
        IF i = 1 THEN getInitialMessage
        ELSE IF i % 2 = 0 THEN [role |-> "user", content |-> "hi"]
        ELSE [role |-> "assistant", content |-> "reply_plain"]]

\* the four exported operations
ServiceOperations ==
    {"sendChatMessage", "generateDesignFromChat", "generateMermaidFromImage",
     "convertMermaidToFlow"}

\* what a provider can answer to a request of the operation
ResponsesTo(op) ==
    CASE op = "sendChatMessage" -> ChatResponses
      [] op = "generateDesignFromChat" -> GenerationResponses
      [] op = "generateMermaidFromImage" -> AnalysisResponses
      [] op = "convertMermaidToFlow" -> ConversionResponses

\* calls of the operation with the settings of the state
DispatchCalls(op) ==
    { [fn |-> "dispatch", op |-> op, turn |-> k, resp |-> r] :
          k \in IF op = "sendChatMessage" THEN 1..MaxTurns ELSE {0},
          r \in ResponsesTo(op) }

\* the implementation the operation chooses
BackendOf(op, key, prov, env) ==
    CASE op = "sendChatMessage" -> sendChatMessageBackend(key, prov, env)
      [] op = "generateDesignFromChat" -> generateDesignFromChatBackend(key, prov, env)
      [] op = "generateMermaidFromImage" -> generateMermaidFromImageBackend(key, prov, env)
      [] op = "convertMermaidToFlow" -> convertMermaidToFlowBackend(key, prov, env)

\* the operation's outcome, served by the backend
OutcomeOf(op, backend, turn, resp) ==
    CASE op = "sendChatMessage" -> sendChatMessage(backend, TurnHistory(turn), "hi", resp)
      [] op = "generateDesignFromChat" -> generateDesignFromChat(backend, << >>, resp)
      [] op = "generateMermaidFromImage" -> generateMermaidFromImage(backend, "file", resp)
      [] op = "convertMermaidToFlow" ->
             convertMermaidToFlow(backend, getMockMermaid, resp)

InitDispatch ==
    /\ SessionInit
    /\ provider \in {"openai", "gemini", "other"}
    /\ apiKey \in {"", "sk-user"}
    /\ envKey \in {"", "sk-env"}
    /\ ModalInit
    /\ crMessage = << >>
    /\ crHistoryLength = 0
    /\ crResult = "none"
    /\ \E op \in ServiceOperations : svcCall \in DispatchCalls(op)
    /\ svcResult = << >>

\* the operation is called with (apiKey, provider) of the settings and settles
ApplyOperation ==
    /\ svcResult = << >>
    /\ svcCall.fn = "dispatch"
    /\ LET backend == BackendOf(svcCall.op, apiKey, provider, envKey)
       IN  svcResult' =
               << [backend |-> backend,
                   requests |-> RemoteRequests(backend),
                   outcome |-> OutcomeOf(svcCall.op, backend, svcCall.turn,
                                         svcCall.resp)] >>
    /\ UNCHANGED << appVars, settingsVars, chatVars, chatCallVars, uploadCallVars,
                    urlVars, netVars, crVars, svcCall, modalVars >>

SpecDispatch == InitDispatch /\ [][ApplyOperation]_vars


\* ------------------------------------- the settings and SettingsModal, alone

\* what localStorage can hold when the page loads: nothing, or what the app wrote
StoredSettings ==
    {[app_provider |-> JsNull, app_api_key |-> JsNull]}
    \cup {[app_provider |-> JsString(p), app_api_key |-> JsString(k)] :
              p \in {"openai", "gemini"}, k \in {"", "sk-a", "sk-b"}}

\* SettingsProvider's initial state, were it to leave the stored provider unread
initialSettingsDefaultProvider(stored) ==
    [provider |-> "openai",
     apiKey |-> IF Truthy(stored.app_api_key) THEN stored.app_api_key.text ELSE ""]

\* SettingsProvider's initial state: getItem(...) || default
initialSettings(stored) ==
    [provider |-> IF Truthy(stored.app_provider) THEN stored.app_provider.text ELSE "openai",
     apiKey |-> IF Truthy(stored.app_api_key) THEN stored.app_api_key.text ELSE ""]

\* the page after loading with the stored settings
InitSettings ==
    /\ SessionInit
    /\ envKey = ""
    /\ \E stored \in StoredSettings :
         /\ loadedFrom = stored
         /\ provider = initialSettings(stored).provider
         /\ apiKey = initialSettings(stored).apiKey
    /\ localStorage = [app_provider |-> JsString(provider), app_api_key |-> JsString(apiKey)]
    /\ isSettingsOpen = FALSE
    /\ localProvider = provider
    /\ localKey = apiKey
    /\ saved = FALSE
    /\ justLoaded = TRUE
    /\ lastSave = NoSave
    /\ crMessage = << >>
    /\ crHistoryLength = 0
    /\ crResult = "none"
    /\ svcCall = NoServiceCall
    /\ svcResult = << >>

\* a Settings button: setIsSettingsOpen(true)
OpenSettings ==
    /\ ~isSettingsOpen
    /\ isSettingsOpen' = TRUE
    /\ justLoaded' = FALSE
    /\ UNCHANGED << appVars, settingsVars, chatVars, chatCallVars, uploadCallVars, urlVars,
                    netVars, crVars, svcVars, localStorage, localProvider, localKey,
                    saved, loadedFrom, lastSave >>

\* the modal's provider buttons: setLocalProvider
SetLocalProvider ==
    /\ isSettingsOpen
    /\ \E p \in {"openai", "gemini"} : localProvider' = p
    /\ justLoaded' = FALSE
    /\ UNCHANGED << appVars, settingsVars, chatVars, chatCallVars, uploadCallVars, urlVars,
                    netVars, crVars, svcVars, localStorage, isSettingsOpen, localKey,
                    saved, loadedFrom, lastSave >>

\* the modal's key input: setLocalKey(e.target.value)
SetLocalKey ==
    /\ isSettingsOpen
    /\ \E k \in {"", "sk-a", "sk-b"} : localKey' = k
    /\ justLoaded' = FALSE
    /\ UNCHANGED << appVars, settingsVars, chatVars, chatCallVars, uploadCallVars, urlVars,
                    netVars, crVars, svcVars, localStorage, isSettingsOpen, localProvider,
                    saved, loadedFrom, lastSave >>

\* the modal's X and Cancel buttons: onClose
CloseSettings ==
    /\ isSettingsOpen
    /\ isSettingsOpen' = FALSE
    /\ justLoaded' = FALSE
    /\ UNCHANGED << appVars, settingsVars, chatVars, chatCallVars, uploadCallVars, urlVars,
                    netVars, crVars, svcVars, localStorage, localProvider, localKey,
                    saved, loadedFrom, lastSave >>

(* handleSave: the settings take the modal's fields, SettingsProvider's    *)
(* effects write them to localStorage, and the timer is started.           *)
HandleSave ==
    /\ isSettingsOpen
    /\ ~saved
    /\ provider' = localProvider
    /\ apiKey' = localKey
    /\ localStorage' = [app_provider |-> JsString(localProvider),
                        app_api_key |-> JsString(localKey)]
    /\ saved' = TRUE
    /\ lastSave' = [provider |-> localProvider, apiKey |-> localKey]
    /\ justLoaded' = FALSE
    /\ UNCHANGED << appVars, envKey, chatVars, chatCallVars, uploadCallVars, urlVars,
                    netVars, crVars, svcVars, isSettingsOpen, localProvider, localKey,
                    loadedFrom >>

\* handleSave's timer fires: setSaved(false), onClose()
SaveTimeout ==
    /\ saved
    /\ saved' = FALSE
    /\ isSettingsOpen' = FALSE
    /\ justLoaded' = FALSE
    /\ UNCHANGED << appVars, settingsVars, chatVars, chatCallVars, uploadCallVars, urlVars,
                    netVars, crVars, svcVars, localStorage, localProvider, localKey,
                    loadedFrom, lastSave >>

(* The page is reloaded: SettingsProvider is initialised from localStorage *)
(* and its effects write the settings back; SettingsModal is mounted anew  *)
(* and a pending timer is gone.                                            *)
Reload ==
    /\ mode = "null"
    /\ loadedFrom' = localStorage
    /\ provider' = initialSettings(localStorage).provider
    /\ apiKey' = initialSettings(localStorage).apiKey
    /\ localStorage' = [app_provider |-> JsString(provider'),
                        app_api_key |-> JsString(apiKey')]
    /\ isSettingsOpen' = FALSE
    /\ localProvider' = provider'
    /\ localKey' = apiKey'
    /\ saved' = FALSE
    /\ justLoaded' = TRUE
    /\ UNCHANGED << appVars, envKey, chatVars, chatCallVars, uploadCallVars, urlVars,
                    netVars, crVars, svcVars, lastSave >>

NextSettings ==
    \/ OpenSettings
    \/ SetLocalProvider
    \/ SetLocalKey
    \/ CloseSettings
    \/ HandleSave
    \/ SaveTimeout
    \/ Reload

SpecSettings == InitSettings /\ [][NextSettings]_vars

\* ================================================================ claims

IsPrefix(s, t) == Len(s) <= Len(t) /\ SubSeq(t, 1, Len(s)) = s

Last(s) == s[Len(s)]

\* a step in which handleSend's continuation runs in the mounted ChatBuilder
SendCompletionStep == sendCall # NoCall /\ sendCall' = NoCall /\ mode' = "chat"

\* the log holds handleGenerate's apology
HoldsGenerateApology(log) ==
    \E i \in 1..Len(log) : log[i].content = "generate_fallback"

\* the text holds a trigger phrase of the readiness policy
HoldsTrigger(text) ==
    \E k \in 1..Len(readyKeywords) : includes(toLowerCase(TextChars(text)), readyKeywords[k])

\* the backend that serves this run's chat calls
ChatBackend == sendChatMessageBackend(apiKey, provider, envKey)

(* C1.  The message log is append-only: while the chat session lasts,      *)
(* every step leaves the log it found as a prefix of the log it produces,  *)
(* under every interleaving of handleSend, handleGenerate and their        *)
(* completions.                                                            *)
LogIsAppendOnly ==
    [][(mode = "chat" /\ mode' = "chat") => IsPrefix(messages, messages')]_vars

(* C2.  After N completed exchanges the log holds exactly 2N messages, and *)
(* the length of the log never decreases between two consecutive states.   *)
(* This is the second half: no step of a chat session shortens the log.    *)
LogLengthNeverDecreases ==
    [][(mode = "chat" /\ mode' = "chat") => Len(messages') >= Len(messages)]_vars

(* C3.  When the chat call fails, the user message stays in the log, the   *)
(* one fallback apology is appended after it, and isReadyToGenerate keeps  *)
(* its value.                                                              *)
FailedSendAppendsOneApology ==
    [][(SendCompletionStep /\ sendOutcome' = "rejected") =>
          /\ Last(sendCall.newMessages) =
                 [role |-> "user", content |-> sendCall.userMessage]
          /\ messages' = Append(sendCall.newMessages,
                                [role |-> "assistant", content |-> "send_fallback"])
          /\ isReadyToGenerate' = isReadyToGenerate]_vars

\* C3: a chat call has failed in a session that was ready to generate
SendFailedWhileReady ==
    /\ mode = "chat"
    /\ sendOutcome = "rejected"
    /\ isReadyToGenerate
    /\ Len(messages) >= 3
    /\ Last(messages) = [role |-> "assistant", content |-> "send_fallback"]
    /\ messages[Len(messages) - 1].role = "user"

(* C4.  At most one remote call is outstanding per chat session and per    *)
(* upload pipeline: no Generate can start while a reply is pending, no     *)
(* Send and no Generate while a generation is pending, and no upload and   *)
(* no conversion while an analysis or a conversion of this pipeline is     *)
(* pending.                                                                *)
OneCallOutstanding ==
    /\ mode = "chat" => ~(sendCall # NoCall /\ generateCall # NoCall)
    /\ sendCall # NoCall => ~GenerateAvailable /\ ~SendButtonEnabled
    /\ generateCall # NoCall => ~SendAvailable /\ ~GenerateAvailable
    /\ (analyzeCall # NoCall /\ ~analyzeCall.stale) =>
           /\ ~(convertCall # NoCall /\ ~convertCall.stale)
           /\ ~(UploadZoneRendered /\ UploadZoneAccepts)
           /\ ~ConvertAvailable
    /\ (convertCall # NoCall /\ ~convertCall.stale) =>
           /\ ~(UploadZoneRendered /\ UploadZoneAccepts)
           /\ ~ConvertAvailable

(* C5.  checkIfReadyToGenerate is true whenever the history length is 8    *)
(* or more, whatever the message.                                          *)
ReadyFromEightMessages ==
    (crResult # "none" /\ crHistoryLength >= 8) => crResult = "true"

\* C5: the policy was applied at length 8 to a message without a trigger phrase
AppliedAtEightWithoutPhrase ==
    /\ crResult # "none"
    /\ crHistoryLength = 8
    /\ crMessage = TextChars("reply_plain")

(* C6.  checkIfReadyToGenerate is true at every history length when the    *)
(* message holds "ready to build", or any other trigger phrase, in any     *)
(* letter case.                                                            *)
ReadyOnTriggerPhrase ==
    \A n \in 1..Len(readyKeywords) :
        (crResult # "none" /\ crMessage \in PhraseMessages(n)) => crResult = "true"

\* C6: the policy was applied at length 0 to "OK. READY TO BUILD?"
AppliedToUpperCasePhrase ==
    /\ crResult # "none"
    /\ crHistoryLength = 0
    /\ crMessage = << "O", "K", ".", " " >> \o Cased(readyKeywords[3], "UPPER") \o << "?" >>

\* the reply of exchange k in a log of greeting, then user and reply in turn
ReplyOf(k) == messages[2 * k + 1]

\* exchanges 1..k were successful and their replies hold no trigger phrase
PlainRepliesUpTo(k) ==
    \A i \in 1..k :
        /\ ReplyOf(i).role = "assistant"
        /\ ReplyOf(i).content # "send_fallback"
        /\ ~HoldsTrigger(ReplyOf(i).content)

(* C7.  In a session of four successful exchanges whose replies 1 to 3     *)
(* hold no trigger phrase and whose reply 4 holds "shall I generate",      *)
(* isReadyToGenerate is false after exchanges 1, 2 and 3 and true after    *)
(* exchange 4.                                                             *)
ReadyAtFourthExchange ==
    \A k \in 1..4 :
        ( /\ mode = "chat"
          /\ ~isLoading
          /\ exchangesCompleted = k
          /\ Len(messages) = 2 * k + 1
          /\ ~HoldsGenerateApology(messages)
          /\ PlainRepliesUpTo(IF k < 4 THEN k ELSE 3)
          /\ k = 4 => /\ ReplyOf(4).content # "send_fallback"
                      /\ includes(toLowerCase(TextChars(ReplyOf(4).content)),
                                  readyKeywords[4]) )
        => (isReadyToGenerate <=> k = 4)

\* C7: the fourth reply asked "Shall I generate it?" after three plain replies
FourthReplyAsksToGenerate ==
    /\ mode = "chat"
    /\ ~isLoading
    /\ exchangesCompleted = 4
    /\ Len(messages) = 9
    /\ PlainRepliesUpTo(3)
    /\ ReplyOf(4).content = "reply_trigger"
    /\ isReadyToGenerate

ChatIdle == mode = "chat" /\ sendCall = NoCall /\ generateCall = NoCall

(* C9, as stated.  In every chat state in which no remote call is pending, *)
(* Generate is available, whether isReadyToGenerate is true or false.      *)
GenerateAlwaysAvailable == ChatIdle => GenerateAvailable

(* C9, amended.  In every chat state in which no remote call is pending,   *)
(* Generate is available exactly when isReadyToGenerate is true.           *)
GenerateAvailableWhenReady ==
    ChatIdle =>
        /\ GenerateAvailable <=> isReadyToGenerate
        /\ (ENABLED HandleGenerate) => isReadyToGenerate

\* C9: an exchange is done, nothing is pending, and the session is not ready
IdleButNotReady ==
    /\ ChatIdle
    /\ exchangesCompleted >= 1
    /\ ~isReadyToGenerate
    /\ ~GenerateAvailable

\* the design has summary, mermaidCode and flowData with nodes and edges
CompleteDesign(summary, code, flow) ==
    /\ summary.type = "string"
    /\ code.type = "string"
    /\ flow.type = "object"
    /\ Get(flow, "nodes").type = "array"
    /\ Get(flow, "edges").type = "array"

(* C10.  Generation succeeds in full or fails: a design handed to          *)
(* handleDesignGenerated has summary, mermaidCode and flowData with nodes  *)
(* and edges; a response that lacks one of them is rejected and changes    *)
(* nothing.                                                                *)
DesignHandedOverIsComplete ==
    [][(mode # "chat-result" /\ mode' = "chat-result") =>
          CompleteDesign(designSummary', mermaidCode', graphData')]_vars

\* the ids of the nodes of a graph, and its edges as pairs of ids
NodeIds(graph) ==
    LET nodes == Get(graph, "nodes")
    IN  IF nodes.type = "array" THEN {nodes.items[i] : i \in 1..Len(nodes.items)} ELSE {}

EdgesOf(graph) ==
    LET edges == Get(graph, "edges")
    IN  IF edges.type = "array" THEN {edges.items[i] : i \in 1..Len(edges.items)} ELSE {}

(* C11.  Every graph the application holds as graphData, from a conversion *)
(* or from a generated design, has referential integrity: the source and   *)
(* the target of every edge are ids of nodes of the same graph.            *)
EdgesJoinNodesOfGraph ==
    \A e \in EdgesOf(graphData) : e[1] \in NodeIds(graphData) /\ e[2] \in NodeIds(graphData)

\* the value a JSON object text stands for
ObjectWritten(text) == JsObject(SubSeq(text, 2, Len(text) - 1))

(* C12.  For both providers, when the model's answer to a generation       *)
(* request is one JSON object with prose or code-fence markers before it,  *)
(* after it or both, generateDesignFromChat succeeds and returns exactly   *)
(* that object.                                                            *)
WrappedDesignIsExtracted ==
    ( /\ svcResult # << >>
      /\ svcCall.fn = "generateDesignFromChat"
      /\ svcCall.pre # << >> \/ svcCall.post # << >> )
    => svcResult[1] = Returned(ObjectWritten(svcCall.object))

RetryOfferedAfterFailure ==
    [][/\ (generateCall # NoCall /\ generateCall' = NoCall /\ mode = "chat" /\ mode' = "chat")
              => GenerateAvailable'
       /\ ( /\ analyzeCall # NoCall
            /\ ~analyzeCall.stale
            /\ analyzeCall' = NoCall
            /\ mode' = "upload"
            /\ ~Truthy(mermaidCode') )
              => (UploadZoneRendered /\ UploadZoneAccepts)'
       /\ ( /\ convertCall # NoCall
            /\ ~convertCall.stale
            /\ convertCall' = NoCall
            /\ ~Truthy(graphData') )
              => ConvertAvailable']_vars

(* C15.  A conversion is started only by the Convert action, taken in a   *)
(* state whose mermaidCode is set; the step in which an analysis finishes *)
(* starts none.                                                           *)
ConversionOnlyOnConvert ==
    [][(convertCall' # NoCall /\ ~convertCall'.stale /\ convertCall' # convertCall)
          => /\ ConvertAvailable
             /\ mermaidCode # JsNull
             /\ convertCall'.mermaidCode = mermaidCode
             /\ analyzeCall' = analyzeCall]_vars

\* C15: the analysis has finished and the conversion the user asked for is in flight
ConversionStartedByConvert ==
    /\ mode = "upload"
    /\ analyzeCall = NoCall
    /\ convertCall # NoCall
    /\ ~convertCall.stale
    /\ convertCall.mermaidCode = mermaidCode

(* C16.  Whenever chat mode is entered, after a reset or a hand-off as    *)
(* much as at the start, the message log is the initial greeting alone,   *)
(* isReadyToGenerate is false, and no call of an earlier session is the   *)
(* session's own.                                                         *)
ChatEnteredAfresh ==
    [][(mode # "chat" /\ mode' = "chat")
          => /\ messages' = << getInitialMessage >>
             /\ ~isReadyToGenerate'
             /\ inputValue' = ""
             /\ sendCall' = NoCall
             /\ generateCall' = NoCall]_vars

(* C16: chat mode entered again after a reset that left the earlier        *)
(* session's generation in flight                                          *)
ChatReenteredAfterReset ==
    /\ mode = "chat"
    /\ orphanGenerateCalls # << >>
    /\ messages = << getInitialMessage >>
    /\ ~isReadyToGenerate

\* a turn of a request body as a message of the log (model is assistant)
TurnMessage(turn) ==
    IF "parts" \in DOMAIN turn
    THEN [role |-> IF turn.role = "model" THEN "assistant" ELSE turn.role,
          content |-> turn.parts[1]]
    ELSE [role |-> turn.role, content |-> turn.content]

\* the turns of a request body after the system prompt, as messages
ConversationTurns(turns) ==
    [i \in 1..(Len(turns) - 1) |-> TurnMessage(turns[i + 1])]

(* C17.  The turns a send puts on the wire are, after the system prompt    *)
(* and up to the role names, the log followed by the new user message:     *)
(* every message once, in order, the new user message last.                *)
TurnsSentAreLogThenUserMessage ==
    (sendCall # NoCall /\ sendCall.backend # "mock")
        => ConversationTurns(sendCall.turns) = sendCall.newMessages

(* C18.  sendChatMessage with a provider key rejects when the transport   *)
(* fails, when the status is not a success, when the body carries an error *)
(* payload and when the body lacks the expected fields: it returns no      *)
(* message and no readiness value then.                                    *)
FailedCallIsRejected ==
    ( /\ svcResult # << >>
      /\ svcCall.fn = "sendChatMessage"
      /\ svcCall.resp.kind \in FailureKinds \/ svcCall.status # "200" )
        => svcResult[1].threw

(* C19.  Provided every remote call settles, a send is followed by a      *)
(* state of the session in which nothing is loading and the input takes a  *)
(* new message (or the session has ended), and isGenerating, isAnalyzing   *)
(* and isConverting are false again after their call.                      *)
SessionStaysContinuable ==
    /\ (mode = "chat" /\ isLoading) ~> (mode # "chat" \/ (~isLoading /\ InputEnabled))
    /\ isGenerating ~> ~isGenerating
    /\ isAnalyzing ~> ~isAnalyzing
    /\ isConverting ~> ~isConverting

\* C19: a send has failed and the input takes the next message
InputOpenAfterFailedSend ==
    /\ mode = "chat"
    /\ sendOutcome = "rejected"
    /\ Last(messages).content = "send_fallback"
    /\ ~isLoading
    /\ InputEnabled

(* C20.  In a chat session the message log alternates roles: no two        *)
(* consecutive messages have the same role.                                *)
RolesAlternate ==
    mode = "chat" =>
        \A i \in 1..(Len(messages) - 1) : messages[i].role # messages[i + 1].role

\* the built-in sample data the operation resolves with in the keyless mode
IsSampleData(op, value) ==
    CASE op = "sendChatMessage" ->
             \E i \in 1..Len(mockResponses) : value.message = mockResponses[i]
      [] op = "generateDesignFromChat" -> Returned(value) = getMockDesign
      [] op = "generateMermaidFromImage" -> value = getMockMermaid
      [] op = "convertMermaidToFlow" -> value = getMockGraph

(* C21.  With neither a user key nor an environment key, each of the four  *)
(* operations issues no remote request and resolves with the built-in      *)
(* sample data, whatever the provider setting and whatever a provider      *)
(* would have answered.                                                    *)
KeylessCallsAreServedLocally ==
    (svcResult # << >> /\ svcCall.fn = "dispatch" /\ apiKey = "" /\ envKey = "")
        => /\ svcResult[1].requests = 0
           /\ ~svcResult[1].outcome.threw
           /\ IsSampleData(svcCall.op, svcResult[1].outcome.value)

\* C21: the keyless conversion under the gemini setting resolved with the sample graph
KeylessConversionWithGeminiSetting ==
    /\ svcResult # << >>
    /\ svcCall.fn = "dispatch"
    /\ svcCall.op = "convertMermaidToFlow"
    /\ apiKey = ""
    /\ envKey = ""
    /\ provider = "gemini"
    /\ svcCall.resp.kind = "transport"
    /\ svcResult[1].outcome = Returned(getMockGraph)

(* C22.  After Save with provider p and key k localStorage holds          *)
(* app_provider = p and app_api_key = k, and a SettingsProvider            *)
(* initialised afterwards starts with provider p and key k; initialised    *)
(* from an empty localStorage it starts with openai and an empty key.      *)
SavedSettingsSurviveReload ==
    /\ lastSave # NoSave =>
           /\ localStorage.app_provider = JsString(lastSave.provider)
           /\ localStorage.app_api_key = JsString(lastSave.apiKey)
    /\ (justLoaded /\ lastSave # NoSave) =>
           (provider = lastSave.provider /\ apiKey = lastSave.apiKey)
    /\ (justLoaded /\ loadedFrom = [app_provider |-> JsNull, app_api_key |-> JsNull]) =>
           (provider = "openai" /\ apiKey = "")

\* C22: the page was reloaded after a Save of gemini with a key
ReloadedAfterSavingGemini ==
    /\ justLoaded
    /\ lastSave = [provider |-> "gemini", apiKey |-> "sk-a"]
    /\ provider = "gemini"
    /\ apiKey = "sk-a"
    /\ loadedFrom = [app_provider |-> JsString("gemini"), app_api_key |-> JsString("sk-a")]

(* C25.  Whenever the settings modal opens, its provider and key fields    *)
(* equal the saved provider and apiKey.                                    *)
ModalOpensWithSavedSettings ==
    [][(~isSettingsOpen /\ isSettingsOpen')
          => (localProvider' = provider' /\ localKey' = apiKey')]_vars

\* the state handleReset leaves: the landing page, nothing to show
ResetState ==
    /\ mode = "null"
    /\ graphData = JsNull
    /\ mermaidCode = JsNull
    /\ uploadedImageUrl = JsNull
    /\ selectedNode = JsNull
    /\ designSummary = JsNull

(* C23.  A call started before a reset and completing after it leaves      *)
(* mode, graphData, mermaidCode, uploadedImageUrl, selectedNode and        *)
(* designSummary null, as the reset set them.                              *)
LateCompletionKeepsReset ==
    [][( /\ ResetState
         /\ \/ Len(orphanGenerateCalls') < Len(orphanGenerateCalls)
            \/ (analyzeCall # NoCall /\ analyzeCall' = NoCall)
            \/ (convertCall # NoCall /\ convertCall' = NoCall) )
          => ResetState']_vars

\* the node types the diagram renders
NodeTypes == {"clientNode", "serverNode", "databaseNode", "loadBalancerNode", "cacheNode"}

\* the sample's ids are distinct, its edges join its nodes, its node types are known
SampleIsWellFormed(flow) ==
    /\ \A i, j \in 1..Len(flow.nodes) : flow.nodes[i].id = flow.nodes[j].id => i = j
    /\ \A i, j \in 1..Len(flow.edges) : flow.edges[i].id = flow.edges[j].id => i = j
    /\ \A i \in 1..Len(flow.edges) :
          /\ \E n \in 1..Len(flow.nodes) : flow.nodes[n].id = flow.edges[i].source
          /\ \E n \in 1..Len(flow.nodes) : flow.nodes[n].id = flow.edges[i].target
    /\ \A i \in 1..Len(flow.nodes) : flow.nodes[i].type \in NodeTypes

\* the ids of a sample's nodes, and the (source, target) pairs of its edges
IdsOf(nodes) == [i \in 1..Len(nodes) |-> nodes[i].id]

EndsOf(edges) == [i \in 1..Len(edges) |-> << edges[i].source, edges[i].target >>]

\* the graph value is the sample: the same node ids and edge ends, in order
IsSampleGraph(graph, flow) ==
    /\ Get(graph, "nodes") = JsArray(IdsOf(flow.nodes))
    /\ Get(graph, "edges") = JsArray(EndsOf(flow.edges))

(* C24.  The graph the keyless conversion resolves with and the flowData   *)
(* of the keyless design are the built-in samples; each sample has         *)
(* pairwise distinct node ids and edge ids, edges whose source and target  *)
(* are node ids, and node types among the five known; the design's sample  *)
(* has 7 to 15 nodes, with a client, a server and a database node.         *)
SampleGraphsAreWellFormed ==
    (svcResult # << >> /\ svcCall.fn = "dispatch" /\ svcResult[1].backend = "mock")
        => /\ svcCall.op = "convertMermaidToFlow" =>
                 /\ IsSampleGraph(svcResult[1].outcome.value, mockGraphFlow)
                 /\ SampleIsWellFormed(mockGraphFlow)
           /\ svcCall.op = "generateDesignFromChat" =>
                 /\ IsSampleGraph(Get(svcResult[1].outcome.value, "flowData"),
                                  mockDesignFlow)
                 /\ SampleIsWellFormed(mockDesignFlow)
                 /\ Len(mockDesignFlow.nodes) \in 7..15
                 /\ \A t \in {"clientNode", "serverNode", "databaseNode"} :
                       \E i \in 1..Len(mockDesignFlow.nodes) :
                          mockDesignFlow.nodes[i].type = t

\* C24: the keyless design has been served
KeylessDesignServed ==
    /\ svcResult # << >>
    /\ svcCall.fn = "dispatch"
    /\ svcCall.op = "generateDesignFromChat"
    /\ svcResult[1].backend = "mock"
    /\ svcResult[1].outcome = getMockDesign

(* C26.  Within one chat session isReadyToGenerate never goes back from   *)
(* true to false.                                                          *)
ReadinessNeverReverts ==
    [][(mode = "chat" /\ mode' = "chat" /\ isReadyToGenerate) => isReadyToGenerate']_vars

\* the rule of the backend choice, for a triple (apiKey, provider, environment key)
BackendRule(key, prov, env) ==
    CASE key # "" /\ prov = "gemini" -> "gemini"
      [] key # "" /\ prov # "gemini" -> "openai"
      [] key = "" /\ env # "" -> "openai"
      [] OTHER -> "mock"

(* C27.  Each of the four operations chooses its backend by the one rule:  *)
(* a key and provider gemini give Gemini, a key and any other provider     *)
(* give OpenAI, no key and an environment key give OpenAI whatever the     *)
(* provider, else the mock; so all four agree on every triple.             *)
BackendChosenByOneRule ==
    /\ (svcResult # << >> /\ svcCall.fn = "dispatch")
           => svcResult[1].backend = BackendRule(apiKey, provider, envKey)
    /\ svcCall.fn = "dispatch"
           => \A op1, op2 \in ServiceOperations :
                 BackendOf(op1, apiKey, provider, envKey)
                     = BackendOf(op2, apiKey, provider, envKey)

\* C27: a conversion without a user key, the provider set to gemini, went to OpenAI
EnvKeyOverridesGeminiSetting ==
    /\ svcResult # << >>
    /\ svcCall.fn = "dispatch"
    /\ svcCall.op = "convertMermaidToFlow"
    /\ apiKey = ""
    /\ envKey # ""
    /\ provider = "gemini"
    /\ svcResult[1].backend = "openai"

(* C28.  In the keyless mode the k-th user turn of a session receives     *)
(* scripted reply number min(k-1, 5), the first turn the first entry, and  *)
(* readiness is reported exactly on the turns that receive the last entry. *)
ScriptedRepliesInOrder ==
    ( /\ svcResult # << >>
      /\ svcCall.fn = "dispatch"
      /\ svcCall.op = "sendChatMessage"
      /\ svcResult[1].backend = "mock" )
        => LET k == svcCall.turn
               number == IF k - 1 < 5 THEN k - 1 ELSE 5
               reply == svcResult[1].outcome.value
           IN  /\ reply.message = mockResponses[number + 1]
               /\ reply.isReadyToGenerate <=> (reply.message = mockResponses[6])

(* C29.  The object URLs created and not yet revoked are none, or the one *)
(* that uploadedImageUrl holds.                                            *)
NoObjectUrlLeaks ==
    \/ objectUrls = {}
    \/ /\ Truthy(uploadedImageUrl)
       /\ objectUrls = {uploadedImageUrl.serial}

\* C29: an image was uploaded and a reset has taken it away, its analysis still pending
UrlRevokedByReset ==
    /\ analyzeCall # NoCall
    /\ analyzeCall.stale
    /\ uploadedImageUrl = JsNull
    /\ objectUrls = {}

\* the text is empty or white space only
IsBlank(id) == \A i \in 1..Len(TextChars(id)) : TextChars(id)[i] \in WhiteSpace

\* content is input without the white space at its two ends
IsTrimmedFrom(content, input) ==
    LET c == TextChars(content)
        v == TextChars(input)
    IN  /\ c # << >>
        /\ c[1] \notin WhiteSpace
        /\ c[Len(c)] \notin WhiteSpace
        /\ \E a \in 0..Len(v) :
              /\ a + Len(c) <= Len(v)
              /\ SubSeq(v, a + 1, a + Len(c)) = c
              /\ \A i \in (1..a) \cup ((a + Len(c) + 1)..Len(v)) : v[i] \in WhiteSpace

(* C30.  A send starts only from an input that is not blank, with nothing  *)
(* loading: the log then gains one user message, the input without the     *)
(* white space at its ends, and the input is cleared.  With a blank input  *)
(* or while loading no send starts and no user message is appended.        *)
SendOnlyTrimmedText ==
    [][/\ (sendCall' # NoCall /\ sendCall' # sendCall)
              => /\ ~IsBlank(inputValue)
                 /\ ~isLoading
                 /\ Len(messages') = Len(messages) + 1
                 /\ SubSeq(messages', 1, Len(messages)) = messages
                 /\ Last(messages').role = "user"
                 /\ IsTrimmedFrom(Last(messages').content, inputValue)
                 /\ inputValue' = ""
                 /\ isLoading'
       /\ (mode = "chat" /\ mode' = "chat" /\ (IsBlank(inputValue) \/ isLoading))
              => /\ sendCall' \in {sendCall, NoCall}
                 /\ messages' # messages => Last(messages').role # "user"]_vars

\* C30: a padded input was sent as its trimmed text
PaddedInputSentTrimmed ==
    /\ mode = "chat"
    /\ sendCall # NoCall
    /\ sendCall.userMessage = "hi"
    /\ Last(messages) = [role |-> "user", content |-> "hi"]
    /\ inputValue = ""
    /\ isLoading

====
